---- MODULE Spec2Model ----
(***************************************************************************)
(* MacAgent: the Session / Action lifecycle served by the FastAPI routers  *)
(* (macagent/api/routers), the store behind them (MockDatabase or          *)
(* SupabaseDatabase, macagent/database) and the ActionExecutor             *)
(* (macagent/vlm/action_executor.py).                                      *)
(*                                                                         *)
(* Optional values (Python's None) are sequences of length at most one:    *)
(* None is << >> and a present value v is << v >>.                         *)
(***************************************************************************)
EXTENDS Integers, Sequences, FiniteSets, TLC

VARIABLES backend, now, sessions, actions, FAILSAFE, resp,
          tasks, running, device, users, routes

\* the server's event loop: the requests it has accepted, the one whose
\* handler its thread is running, and what the input device was made to do
loop == << tasks, running, device >>

\* the users and the routes of the store
tables == << users, routes >>

vars == << backend, now, sessions, actions, FAILSAFE, resp, loop, tables >>

-----------------------------------------------------------------------------
(* Bounds of the model *)

\* the clock (datetime.utcnow) takes the values 0..MaxTime
MaxTime == 2
\* between the two readings of time.time() in execute the clock advances
\* by at most MaxElapsed milliseconds, or is set back by at most MaxSetBack
MaxElapsed == 1
MaxSetBack == 1

SessionIds == {"s1", "s2"}
ActionIds == {"a1", "a2"}
UserIds == {"u1", "u2"}
AppNames == {"Safari"}
Tasks == {"open page"}

-----------------------------------------------------------------------------
(* Optional values *)

None == << >>
Some(v) == << v >>
IsNone(o) == o = << >>
Get(o) == o[1]

-----------------------------------------------------------------------------
(* macagent/core/models.py *)

RUNNING == "running"
PAUSED == "paused"
COMPLETED == "completed"
SESSION_FAILED == "failed"
CANCELLED == "cancelled"
SessionStatus == {RUNNING, PAUSED, COMPLETED, SESSION_FAILED, CANCELLED}

PENDING == "pending"
SUCCESS == "success"
FAILED == "failed"
ActionStatus == {PENDING, SUCCESS, FAILED}

CLICK == "click"
TYPE == "type"
SCROLL == "scroll"
WAIT == "wait"
DOUBLE_CLICK == "double_click"
RIGHT_CLICK == "right_click"
ActionType == {CLICK, TYPE, SCROLL, WAIT, DOUBLE_CLICK, RIGHT_CLICK}

\* a Session whose end time defaults to its start time
Session_ended(id, user_id, app_name, task_description, status, started_at) ==
    [id |-> id, user_id |-> user_id, app_name |-> app_name,
     task_description |-> task_description, status |-> status,
     started_at |-> started_at, ended_at |-> Some(started_at),
     current_step |-> 0]

\* Session(...): status defaults to RUNNING, started_at to utcnow(),
\* ended_at to None and current_step to 0
Session(id, user_id, app_name, task_description, status, started_at) ==
    [id |-> id, user_id |-> user_id, app_name |-> app_name,
     task_description |-> task_description, status |-> status,
     started_at |-> started_at, ended_at |-> None, current_step |-> 0]

\* Coordinates, ActionTarget (confidence in hundredths)
Coordinates(x, y) == [x |-> x, y |-> y]
ActionTarget(element, coordinates, confidence) ==
    [element |-> element, coordinates |-> coordinates,
     confidence |-> confidence]

\* Action(...): status defaults to PENDING, execution_time, error_message
\* and screenshot_url to None, timestamp to utcnow()
Action(id, session_id, step_number, action_type, target_element, target, text, timestamp) ==
    [id |-> id, session_id |-> session_id, step_number |-> step_number,
     action_type |-> action_type, target_element |-> target_element,
     target |-> target, text |-> text, screenshot_url |-> None,
     status |-> PENDING, execution_time |-> None, timestamp |-> timestamp,
     error_message |-> None]

-----------------------------------------------------------------------------
(* Strings that are searched are sequences of words *)

\* Python's "phrase in message", on words
Contains(message, phrase) ==
    \E i \in 0..(Len(message) - Len(phrase)) :
        \A j \in 1..Len(phrase) : message[i + j] = phrase[j]

-----------------------------------------------------------------------------
(* The store: MockDatabase keeps the model objects themselves in its       *)
(* dictionaries; SupabaseDatabase keeps rows of the columns it writes.     *)

MOCK == "mock"
SUPABASE == "supabase"
Backends == {MOCK, SUPABASE}

\* SupabaseDatabase.create_session: the row it inserts has no current_step,
\* which the table fills with its default
supabase_session_row(session) ==
    [id |-> session.id, user_id |-> session.user_id,
     app_name |-> session.app_name,
     task_description |-> session.task_description,
     status |-> session.status, started_at |-> session.started_at,
     ended_at |-> session.ended_at, current_step |-> 0]

db_create_session(session) ==
    IF backend = MOCK
    THEN [x \in DOMAIN sessions \cup {session.id} |->
            IF x = session.id THEN session ELSE sessions[x]]
    ELSE [x \in DOMAIN sessions \cup {session.id} |->
            IF x = session.id THEN supabase_session_row(session)
            ELSE sessions[x]]

\* get_session: None when the identifier is not stored
db_get_session(session_id) ==
    IF session_id \in DOMAIN sessions THEN Some(sessions[session_id]) ELSE None

\* MockDatabase.update_session replaces the stored object;
\* SupabaseDatabase.update_session writes status, ended_at, current_step
\* in the rows of that identifier. With an identifier that is not stored
\* the one raises before it assigns and the other finds no row to write.
db_update_session(session) ==
    IF session.id \notin DOMAIN sessions THEN sessions
    ELSE IF backend = MOCK
    THEN [sessions EXCEPT ![session.id] = session]
    ELSE [sessions EXCEPT ![session.id] =
            [@ EXCEPT !.status = session.status,
                      !.ended_at = session.ended_at,
                      !.current_step = session.current_step]]

\* SupabaseDatabase.create_action: the row it inserts has neither the
\* target nor the text of the action
supabase_action_row(action) ==
    [id |-> action.id, session_id |-> action.session_id,
     step_number |-> action.step_number, action_type |-> action.action_type,
     target_element |-> action.target_element,
     screenshot_url |-> action.screenshot_url, status |-> action.status,
     execution_time |-> action.execution_time,
     timestamp |-> action.timestamp, error_message |-> action.error_message]

\* SupabaseDatabase._action_from_dict: target and text take their defaults
_action_from_dict(data) ==
    [id |-> data.id, session_id |-> data.session_id,
     step_number |-> data.step_number, action_type |-> data.action_type,
     target_element |-> data.target_element, target |-> None, text |-> None,
     screenshot_url |-> data.screenshot_url, status |-> data.status,
     execution_time |-> data.execution_time, timestamp |-> data.timestamp,
     error_message |-> data.error_message]

db_create_action(action) ==
    IF backend = MOCK
    THEN [x \in DOMAIN actions \cup {action.id} |->
            IF x = action.id THEN action ELSE actions[x]]
    ELSE [x \in DOMAIN actions \cup {action.id} |->
            IF x = action.id THEN supabase_action_row(action)
            ELSE actions[x]]

\* get_action: None when the identifier is not stored
db_get_action(action_id) ==
    IF action_id \notin DOMAIN actions THEN None
    ELSE IF backend = MOCK THEN Some(actions[action_id])
    ELSE Some(_action_from_dict(actions[action_id]))

\* an update that writes the execution time and the error message but
\* leaves the stored status as it was
db_update_action_stale(action) ==
    [actions EXCEPT ![action.id] =
        [@ EXCEPT !.execution_time = action.execution_time,
                  !.error_message = action.error_message]]

\* MockDatabase.update_action replaces the stored object;
\* SupabaseDatabase.update_action writes status, execution_time and
\* error_message in the rows of that identifier. With an identifier that is
\* not stored the one raises before it assigns and the other finds no row.
db_update_action(action) ==
    IF action.id \notin DOMAIN actions THEN actions
    ELSE IF backend = MOCK
    THEN [actions EXCEPT ![action.id] = action]
    ELSE [actions EXCEPT ![action.id] =
            [@ EXCEPT !.status = action.status,
                      !.execution_time = action.execution_time,
                      !.error_message = action.error_message]]

\* a dictionary or table without the entries of these keys
without(table, keys) == [x \in DOMAIN table \ keys |-> table[x]]

\* the store's sessions and actions, for an operation of several steps
Store(session_table, action_table) ==
    [sessions |-> session_table, actions |-> action_table]

\* "del self.sessions[session_id]", or delete().eq("id", session_id) on the
\* table of sessions
delete_session_row(store, session_id) ==
    [store EXCEPT !.sessions = without(@, {session_id})]

\* the deletion of every action whose session_id is session_id
delete_session_actions(store, session_id) ==
    [store EXCEPT !.actions =
        without(@, {a \in DOMAIN @ : @[a].session_id = session_id})]

\* delete_session: MockDatabase deletes the session, then its actions;
\* SupabaseDatabase deletes the actions, then the session
delete_first(store, session_id) ==
    IF backend = MOCK THEN delete_session_row(store, session_id)
    ELSE delete_session_actions(store, session_id)
delete_second(store, session_id) ==
    IF backend = MOCK THEN delete_session_actions(store, session_id)
    ELSE delete_session_row(store, session_id)

\* MockDatabase.delete_session does nothing and returns False when the
\* session is not stored; SupabaseDatabase.delete_session does both
\* deletions and returns whether a row of sessions was deleted
deletes_nothing(session_id) == backend = MOCK /\ session_id \notin DOMAIN sessions

\* delete_session that leaves the actions of the session
db_delete_session_alone(session_id) ==
    [store |-> IF deletes_nothing(session_id) THEN Store(sessions, actions)
               ELSE delete_session_row(Store(sessions, actions), session_id),
     returned |-> session_id \in DOMAIN sessions]

db_delete_session(session_id) ==
    [store |-> IF deletes_nothing(session_id) THEN Store(sessions, actions)
               ELSE delete_second(delete_first(Store(sessions, actions), session_id),
                                  session_id),
     returned |-> session_id \in DOMAIN sessions]

\* what list_actions(session_id) lists, its order and its limit aside
listed_actions(session_id) ==
    {db_get_action(a) : a \in {x \in DOMAIN actions : actions[x].session_id = session_id}}

\* the entries of the store's actions in the order of these identifiers:
\* self.actions.values(), or the rows of the table
values(order) == [i \in 1..Len(order) |-> actions[order[i]]]

\* actions[:limit]
up_to(listing, limit) ==
    SubSeq(listing, 1, IF limit < Len(listing) THEN limit ELSE Len(listing))

\* actions.sort(key=lambda a: a.step_number), or order("step_number"):
\* each entry goes behind those of a step number that is not greater
RECURSIVE sorted_by_step(_)
sorted_by_step(listing) ==
    IF listing = << >> THEN << >>
    ELSE LET last == listing[Len(listing)]
             before == sorted_by_step(SubSeq(listing, 1, Len(listing) - 1))
             ahead == SelectSeq(before, LAMBDA a : a.step_number <= last.step_number)
             behind == SelectSeq(before, LAMBDA a : a.step_number > last.step_number)
         IN  ahead \o << last >> \o behind

\* list_actions that leaves the actions in the order of the store
db_list_actions_unsorted(order, session_id, limit) ==
    LET of_session == SelectSeq(values(order), LAMBDA a : a.session_id = session_id)
        listing == up_to(of_session, limit)
    IN  IF backend = MOCK THEN listing
        ELSE [i \in 1..Len(listing) |-> _action_from_dict(listing[i])]

\* list_actions(session_id, limit): the actions of the session, sorted by
\* step number, the first limit of them. SupabaseDatabase builds each from
\* its row.
db_list_actions(order, session_id, limit) ==
    LET of_session == SelectSeq(values(order), LAMBDA a : a.session_id = session_id)
        listing == up_to(sorted_by_step(of_session), limit)
    IN  IF backend = MOCK THEN listing
        ELSE [i \in 1..Len(listing) |-> _action_from_dict(listing[i])]

\* models.py
User(id, created_at, consent_given, consent_timestamp) ==
    [id |-> id, created_at |-> created_at, consent_given |-> consent_given,
     consent_timestamp |-> consent_timestamp]
Route(id, session_id, planned_route, actual_route, created_at) ==
    [id |-> id, session_id |-> session_id, planned_route |-> planned_route,
     actual_route |-> actual_route, created_at |-> created_at]

\* create_user, create_route: both stores keep every field
db_create_user(user) ==
    [x \in DOMAIN users \cup {user.id} |-> IF x = user.id THEN user ELSE users[x]]
db_create_route(route) ==
    [x \in DOMAIN routes \cup {route.id} |-> IF x = route.id THEN route ELSE routes[x]]

\* get_user, get_route: None when the identifier is not stored
db_get_user(user_id) ==
    IF user_id \in DOMAIN users THEN Some(users[user_id]) ELSE None
db_get_route(route_id) ==
    IF route_id \in DOMAIN routes THEN Some(routes[route_id]) ELSE None

\* update_user_consent: consent_given and consent_timestamp = utcnow()
db_update_user_consent(user_id, consent_given) ==
    IF user_id \notin DOMAIN users THEN users
    ELSE [users EXCEPT ![user_id] =
            [@ EXCEPT !.consent_given = consent_given,
                      !.consent_timestamp = Some(now)]]

\* MockDatabase.update_route replaces the stored object;
\* SupabaseDatabase.update_route writes planned_route and actual_route
db_update_route(route) ==
    IF route.id \notin DOMAIN routes THEN routes
    ELSE IF backend = MOCK
    THEN [routes EXCEPT ![route.id] = route]
    ELSE [routes EXCEPT ![route.id] =
            [@ EXCEPT !.planned_route = route.planned_route,
                      !.actual_route = route.actual_route]]

-----------------------------------------------------------------------------
(* The last request and its answer (history, not program state):           *)
(*   op      the handler, id the identifier in the request path            *)
(*   code    the HTTP status of the answer                                 *)
(*   at      the time (utcnow) at which the request was served             *)
(*   before  the stored entity when the request arrived (None if absent)   *)
(*   paused  for a resume that directly follows an accepted pause of the   *)
(*           same session: the session as it was before that pause         *)
(*   confirmed  the "confirmed" of a confirm request                         *)
(*   calls   the number of calls of ActionExecutor.execute the handler made *)
(*   done    the primitive operations those calls performed, in order      *)
(*   trace   the values the action's status took in the handler, from the  *)
(*           one read from the store on                                    *)
(*   exec    the call of ActionExecutor.execute the handler made, if any:  *)
(*           its argument, what befell it and its outcome                  *)
(*   args    the failsafe argument of a construction of the executor, if   *)
(*           one was given                                                 *)
(*   input   what a call of the model client or of the parser was given:   *)
(*           the model's reply, or the text to parse                       *)
(*   out     what that call returned or raised                             *)

NoResp == [op |-> "none", id |-> "none", code |-> 0, at |-> 0, before |-> None,
           paused |-> None, confirmed |-> FALSE, calls |-> 0, done |-> << >>,
           trace |-> << >>, exec |-> None, args |-> None,
           input |-> None, out |-> None]

Answer(op, id, code, before) ==
    [op |-> op, id |-> id, code |-> code, at |-> now, before |-> before,
     paused |-> None, confirmed |-> FALSE, calls |-> 0, done |-> << >>,
     trace |-> << >>, exec |-> None, args |-> None,
     input |-> None, out |-> None]

-----------------------------------------------------------------------------
(* macagent/api/routers/sessions.py *)

\* POST /sessions
create_session(id, user_id, app_name, task) ==
    /\ id \notin DOMAIN sessions
    /\ LET session == Session(id, user_id, app_name, task, RUNNING, now)
       IN  /\ sessions' = db_create_session(session)
           /\ resp' = Answer("create_session", id, 200, None)
    /\ UNCHANGED << backend, now, actions, FAILSAFE, loop, tables >>

\* a pause that stamps the end time
paused_session_ended(session) ==
    [session EXCEPT !.status = PAUSED, !.ended_at = Some(now)]

\* the session pause_session stores
paused_session(session) == [session EXCEPT !.status = PAUSED]

\* pause_session without its check of the current status
pause_session_unchecked(session_id) ==
    LET found == db_get_session(session_id) IN
    /\ IF IsNone(found)
       THEN /\ resp' = Answer("pause_session", session_id, 404, found)
            /\ UNCHANGED sessions
       ELSE /\ sessions' = db_update_session(paused_session(Get(found)))
            /\ resp' = Answer("pause_session", session_id, 200, found)
    /\ UNCHANGED << backend, now, actions, FAILSAFE, loop, tables >>

\* PATCH /sessions/{session_id}/pause
pause_session(session_id) ==
    LET found == db_get_session(session_id) IN
    /\ IF IsNone(found)
       THEN /\ resp' = Answer("pause_session", session_id, 404, found)
            /\ UNCHANGED sessions
       ELSE IF Get(found).status # RUNNING
       THEN /\ resp' = Answer("pause_session", session_id, 400, found)
            /\ UNCHANGED sessions
       ELSE /\ sessions' = db_update_session(paused_session(Get(found)))
            /\ resp' = Answer("pause_session", session_id, 200, found)
    /\ UNCHANGED << backend, now, actions, FAILSAFE, loop, tables >>

\* a resume that also restarts the step counter and the start time
resumed_session_restart(session) ==
    [session EXCEPT !.status = RUNNING, !.current_step = @ + 1,
                    !.started_at = now]

\* the session resume_session stores
resumed_session(session) == [session EXCEPT !.status = RUNNING]

\* resume_session with its check of the current status inverted to "not
\* RUNNING", so that it also accepts sessions that have ended
resume_session_loose(session_id) ==
    LET found == db_get_session(session_id) IN
    /\ IF IsNone(found)
       THEN /\ resp' = Answer("resume_session", session_id, 404, found)
            /\ UNCHANGED sessions
       ELSE IF Get(found).status = RUNNING
       THEN /\ resp' = Answer("resume_session", session_id, 400, found)
            /\ UNCHANGED sessions
       ELSE /\ sessions' = db_update_session(resumed_session(Get(found)))
            /\ resp' = Answer("resume_session", session_id, 200, found)
    /\ UNCHANGED << backend, now, actions, FAILSAFE, loop, tables >>

\* PATCH /sessions/{session_id}/resume
resume_session(session_id) ==
    LET found == db_get_session(session_id) IN
    /\ IF IsNone(found)
       THEN /\ resp' = Answer("resume_session", session_id, 404, found)
            /\ UNCHANGED sessions
       ELSE IF Get(found).status # PAUSED
       THEN /\ resp' = Answer("resume_session", session_id, 400, found)
            /\ UNCHANGED sessions
       ELSE /\ sessions' = db_update_session(resumed_session(Get(found)))
            /\ resp' = [Answer("resume_session", session_id, 200, found)
                          EXCEPT !.paused =
                            IF /\ resp.op = "pause_session"
                               /\ resp.id = session_id
                               /\ resp.code = 200
                            THEN resp.before ELSE None]
    /\ UNCHANGED << backend, now, actions, FAILSAFE, loop, tables >>

\* a cancel that forgets to stamp the end time
cancelled_session_unstamped(session) == [session EXCEPT !.status = CANCELLED]

\* the session cancel_session stores: no check of the current status
cancelled_session(session) ==
    [session EXCEPT !.status = CANCELLED, !.ended_at = Some(now)]

\* a cancel_session that refuses sessions that have ended
cancel_session_strict(session_id) ==
    LET found == db_get_session(session_id) IN
    /\ IF IsNone(found)
       THEN /\ resp' = Answer("cancel_session", session_id, 404, found)
            /\ UNCHANGED sessions
       ELSE IF Get(found).status \notin {RUNNING, PAUSED}
       THEN /\ resp' = Answer("cancel_session", session_id, 400, found)
            /\ UNCHANGED sessions
       ELSE /\ sessions' = db_update_session(cancelled_session(Get(found)))
            /\ resp' = Answer("cancel_session", session_id, 200, found)
    /\ UNCHANGED << backend, now, actions, FAILSAFE, loop, tables >>

\* PATCH /sessions/{session_id}/cancel
cancel_session(session_id) ==
    LET found == db_get_session(session_id) IN
    /\ IF IsNone(found)
       THEN /\ resp' = Answer("cancel_session", session_id, 404, found)
            /\ UNCHANGED sessions
       ELSE /\ sessions' = db_update_session(cancelled_session(Get(found)))
            /\ resp' = Answer("cancel_session", session_id, 200, found)
    /\ UNCHANGED << backend, now, actions, FAILSAFE, loop, tables >>

\* A session ends outside the routers: the store's update_session is called
\* with the status set to COMPLETED or FAILED and the end time stamped
\* (tests/test_database/test_mock_db.py, test_update_session).
finish_session(session_id, status) ==
    /\ session_id \in DOMAIN sessions
    /\ sessions[session_id].status \in {RUNNING, PAUSED}
    /\ sessions' = db_update_session(
          [sessions[session_id] EXCEPT !.status = status,
                                       !.ended_at = Some(now)])
    /\ resp' = Answer("finish_session", session_id, 200,
                      Some(sessions[session_id]))
    /\ UNCHANGED << backend, now, actions, FAILSAFE, loop, tables >>

-----------------------------------------------------------------------------
(* macagent/vlm/action_executor.py                                         *)
(*                                                                         *)
(* A handler of the executor either raises ValueError before any primitive *)
(* operation (error) or asks for primitive operations in order (ops).      *)
(* "pause" is the executor's own fixed time.sleep between a click and what *)
(* follows it, "sleep" the time.sleep of a wait; click, doubleClick,       *)
(* rightClick, write and scroll are calls of pyautogui, which move the     *)
(* pointer or press keys.                                                  *)

Prim(fn, args) == [fn |-> fn, args |-> args]
Raise(message) == [error |-> Some(message), ops |-> << >>]
Do(ops) == [error |-> None, ops |-> ops]

\* "action.target and action.target.coordinates"
has_coordinates(action) ==
    /\ ~IsNone(action.target)
    /\ ~IsNone(Get(action.target).coordinates)

xy(action) ==
    LET c == Get(Get(action.target).coordinates) IN << c.x, c.y >>

\* "not action.target_element or key not in action.target_element"
lacks(action, key) ==
    \/ IsNone(action.target_element)
    \/ DOMAIN Get(action.target_element) = {}
    \/ key \notin DOMAIN Get(action.target_element)

_click(action) ==
    IF has_coordinates(action)
    THEN Do(<< Prim("click", xy(action)) >>)
    ELSE Raise(<< "Click", "action", "requires", "coordinates" >>)

\* a double click made of two clicks
_double_click_twice(action) ==
    IF has_coordinates(action)
    THEN Do(<< Prim("click", xy(action)), Prim("click", xy(action)) >>)
    ELSE Raise(<< "Double", "click", "action", "requires", "coordinates" >>)

_double_click(action) ==
    IF has_coordinates(action)
    THEN Do(<< Prim("doubleClick", xy(action)) >>)
    ELSE Raise(<< "Double", "click", "action", "requires", "coordinates" >>)

_right_click(action) ==
    IF has_coordinates(action)
    THEN Do(<< Prim("rightClick", xy(action)) >>)
    ELSE Raise(<< "Right", "click", "action", "requires", "coordinates" >>)

\* _type that clicks for the focus before it looks at the text
_type_focus_first(action) ==
    IF has_coordinates(action)
    THEN IF IsNone(action.text) \/ Get(action.text) = ""
         THEN [error |-> Some(<< "Type", "action", "requires", "text" >>),
               ops |-> << Prim("click", xy(action)), Prim("pause", << 200 >>) >>]
         ELSE Do(<< Prim("click", xy(action)), Prim("pause", << 200 >>),
                    Prim("write", << Get(action.text) >>) >>)
    ELSE IF IsNone(action.text) \/ Get(action.text) = ""
    THEN Raise(<< "Type", "action", "requires", "text" >>)
    ELSE Do(<< Prim("write", << Get(action.text) >>) >>)

\* "not action.text" holds of None and of the empty string
_type(action) ==
    IF IsNone(action.text) \/ Get(action.text) = ""
    THEN Raise(<< "Type", "action", "requires", "text" >>)
    ELSE IF has_coordinates(action)
    THEN Do(<< Prim("click", xy(action)), Prim("pause", << 200 >>),
               Prim("write", << Get(action.text) >>) >>)
    ELSE Do(<< Prim("write", << Get(action.text) >>) >>)

\* _scroll that clicks after it has scrolled
_scroll_then_click(action) ==
    IF lacks(action, "amount")
    THEN Raise(<< "Scroll", "action", "requires", "amount" >>)
    ELSE LET amount == Get(action.target_element).amount IN
         IF has_coordinates(action)
         THEN Do(<< Prim("scroll", << amount >>), Prim("pause", << 100 >>),
                    Prim("click", xy(action)) >>)
         ELSE Do(<< Prim("scroll", << amount >>) >>)

_scroll(action) ==
    IF lacks(action, "amount")
    THEN Raise(<< "Scroll", "action", "requires", "amount" >>)
    ELSE LET amount == Get(action.target_element).amount IN
         IF has_coordinates(action)
         THEN Do(<< Prim("click", xy(action)), Prim("pause", << 100 >>),
                    Prim("scroll", << amount >>) >>)
         ELSE Do(<< Prim("scroll", << amount >>) >>)

\* time.sleep(duration): duration is in seconds, operations count milliseconds
_wait(action) ==
    IF lacks(action, "duration")
    THEN Raise(<< "Wait", "action", "requires", "duration" >>)
    ELSE Do(<< Prim("sleep", << Get(action.target_element).duration * 1000 >>) >>)

\* the if / elif chain of execute
dispatch(action) ==
    CASE action.action_type = CLICK -> _click(action)
      [] action.action_type = DOUBLE_CLICK -> _double_click(action)
      [] action.action_type = RIGHT_CLICK -> _right_click(action)
      [] action.action_type = TYPE -> _type(action)
      [] action.action_type = SCROLL -> _scroll(action)
      [] action.action_type = WAIT -> _wait(action)
      [] OTHER -> Raise(<< "Unknown", "action", "type" >>)

\* pyautogui.FAILSAFE is a module global: the import sets it (line 11) and
\* every construction of an ActionExecutor sets it again
\* (failsafe is the argument, if one is given). This one leaves the
\* fail-safe off unless it is asked for.
__init___default_off(failsafe) ==
    /\ FAILSAFE' = IF IsNone(failsafe) THEN FALSE ELSE Get(failsafe)
    /\ resp' = [Answer("__init__", "none", 200, None) EXCEPT !.args = failsafe]
    /\ UNCHANGED << backend, now, sessions, actions, loop, tables >>

\* ActionExecutor(failsafe=True, pause=0.5)
__init__(failsafe) ==
    /\ FAILSAFE' = IF IsNone(failsafe) THEN TRUE ELSE Get(failsafe)
    /\ resp' = [Answer("__init__", "none", 200, None) EXCEPT !.args = failsafe]
    /\ UNCHANGED << backend, now, sessions, actions, loop, tables >>

\* exceptions: the class and str(e)
Exc(cls, message) == [cls |-> cls, message |-> message]
ValueError(message) == Exc("ValueError", message)
\* a primitive operation fails: the input device is unavailable
PrimitiveError == Exc("OSError", << "input", "device", "unavailable" >>)
\* pyautogui.FailSafeException (a PyAutoGUIException, an Exception)
FailSafeException ==
    Exc("FailSafeException", << "PyAutoGUI", "fail-safe", "triggered" >>)

\* "except Exception" with a clause that catches ValueError only
except_ValueError(cls) == cls = "ValueError"

\* "except Exception as e": every class raised here derives from Exception
except_Exception(cls) == cls \in {"ValueError", "OSError", "FailSafeException"}

\* the calls of pyautogui among the primitive operations
Physical == {"click", "doubleClick", "rightClick", "write", "scroll"}
is_physical(op) == op.fn \in Physical

\* What can befall a call of execute:
\*   fault    the primitive operation that fails (0: none does)
\*   corner   the primitive operation during which the pointer is moved to
\*            a corner of the screen (0: it is there before the first,
\*            NoCorner: it is never there)
\*   elapsed  what int((time.time() - start_time) * 1000) comes to: the
\*            wall clock may be set back between the two readings
NoCorner == 0 - 1
Env(fault, corner, elapsed) ==
    [fault |-> fault, corner |-> corner, elapsed |-> elapsed]

\* the fault-th primitive operation raises, if there is one and it can
Raises(plan, fault) ==
    /\ fault \in 1..Len(plan.ops)
    /\ plan.ops[fault].fn # "pause"

Faults(action) ==
    {0} \cup {i \in 1..Len(dispatch(action).ops) : Raises(dispatch(action), i)}
Corners(action) ==
    {k \in 0..Len(dispatch(action).ops) : dispatch(action).ops # << >>}
Elapsed == (0 - MaxSetBack)..MaxElapsed
Envs(action) ==
    {Env(f, NoCorner, e) : f \in Faults(action), e \in Elapsed}
        \cup {Env(0, k, e) : k \in Corners(action), e \in Elapsed}

\* pyautogui checks the pointer when a call of it begins, and write checks
\* it again after each key: with the fail-safe on, the i-th operation
\* raises without acting when the pointer reached a corner earlier, and a
\* write is cut short when it reaches one while the keys are typed
refused(ops, i, failsafe, env) ==
    /\ failsafe
    /\ env.corner # NoCorner
    /\ env.corner < i
    /\ is_physical(ops[i])
cut_short(ops, i, failsafe, env) ==
    /\ failsafe
    /\ env.corner = i
    /\ ops[i].fn = "write"

\* the first primitive operation that raises (0: none)
RECURSIVE first_raising(_, _, _, _)
first_raising(ops, i, failsafe, env) ==
    IF i > Len(ops) THEN 0
    ELSE IF \/ env.fault = i /\ ops[i].fn # "pause"
            \/ refused(ops, i, failsafe, env)
            \/ cut_short(ops, i, failsafe, env)
    THEN i
    ELSE first_raising(ops, i + 1, failsafe, env)

\* the write that was cut short typed some of its keys
begun(op) == Prim("write_begun", op.args)

\* execute that works on a copy of its argument
execute_copying(action, failsafe, env) ==
    LET plan == dispatch(action)
        r == first_raising(plan.ops, 1, failsafe, env)
        raised == IF ~IsNone(plan.error) THEN Some(ValueError(Get(plan.error)))
                  ELSE IF r = 0 THEN None
                  ELSE IF env.fault = r THEN Some(PrimitiveError)
                  ELSE Some(FailSafeException)
        done == IF r = 0 THEN plan.ops
                ELSE IF env.fault # r /\ cut_short(plan.ops, r, failsafe, env)
                THEN Append(SubSeq(plan.ops, 1, r - 1), begun(plan.ops[r]))
                ELSE SubSeq(plan.ops, 1, r - 1)
        handled == ~IsNone(raised) /\ except_Exception(Get(raised).cls)
        result == [IF IsNone(raised) THEN [action EXCEPT !.status = SUCCESS]
                   ELSE IF handled
                   THEN [action EXCEPT !.status = FAILED,
                                       !.error_message = Some(Get(raised).message)]
                   ELSE action
                     EXCEPT !.execution_time = Some(env.elapsed)]
    IN  [given |-> action, failsafe |-> failsafe, env |-> env,
         returned |-> result, argument |-> action, done |-> done,
         propagated |-> IF IsNone(raised) \/ handled THEN None ELSE raised]

\* ActionExecutor.execute. given is the argument as it was passed in,
\* argument the same object when the call is over, returned what the call
\* returns (when nothing is propagated), done the primitive operations it
\* performed, propagated the exception that leaves it, if one does.
execute(action, failsafe, env) ==
    LET plan == dispatch(action)
        r == first_raising(plan.ops, 1, failsafe, env)
        raised == IF ~IsNone(plan.error) THEN Some(ValueError(Get(plan.error)))
                  ELSE IF r = 0 THEN None
                  ELSE IF env.fault = r THEN Some(PrimitiveError)
                  ELSE Some(FailSafeException)
        done == IF r = 0 THEN plan.ops
                ELSE IF env.fault # r /\ cut_short(plan.ops, r, failsafe, env)
                THEN Append(SubSeq(plan.ops, 1, r - 1), begun(plan.ops[r]))
                ELSE SubSeq(plan.ops, 1, r - 1)
        handled == ~IsNone(raised) /\ except_Exception(Get(raised).cls)
        result == [IF IsNone(raised) THEN [action EXCEPT !.status = SUCCESS]
                   ELSE IF handled
                   THEN [action EXCEPT !.status = FAILED,
                                       !.error_message = Some(Get(raised).message)]
                   ELSE action
                     EXCEPT !.execution_time = Some(env.elapsed)]
    IN  [given |-> action, failsafe |-> failsafe, env |-> env,
         returned |-> result, argument |-> result, done |-> done,
         propagated |-> IF IsNone(raised) \/ handled THEN None ELSE raised]

\* the store after a handler's call of execute: the mock store holds the
\* very object that was executed, the Supabase store a row of its own
after_execute(executed) ==
    IF backend = MOCK /\ executed.given.id \in DOMAIN actions
    THEN [actions EXCEPT ![executed.given.id] = executed.argument]
    ELSE actions

-----------------------------------------------------------------------------
(* macagent/api/routers/actions.py *)

\* what the store holds under an action identifier
stored_action(action_id) ==
    IF action_id \in DOMAIN actions THEN Some(actions[action_id]) ELSE None

\* An action is persisted: the store's create_action is called with a new
\* Action (no router does it; tests/test_database/test_mock_db.py does).
create_action(id, session_id, step_number, input) ==
    /\ id \notin DOMAIN actions
    /\ actions' = db_create_action(
          Action(id, session_id, step_number, input.action_type,
                 input.target_element, input.target, input.text, now))
    /\ resp' = [Answer("create_action", id, 200, None)
                  EXCEPT !.input = Some(
                      Action(id, session_id, step_number, input.action_type,
                             input.target_element, input.target, input.text, now))]
    /\ UNCHANGED << backend, now, sessions, FAILSAFE, loop, tables >>

NotConfirmed == << "Action", "not", "confirmed", "by", "user" >>

\* a rejection that stores no error message
rejected_action_silent(action) == [action EXCEPT !.status = FAILED]

\* what confirm_action stores when the caller does not confirm
rejected_action(action) ==
    [action EXCEPT !.status = FAILED, !.error_message = Some(NotConfirmed)]

\* confirm_action without its check of the current status
confirm_action_unchecked(action_id, confirmed) ==
    LET found == db_get_action(action_id)
        before == stored_action(action_id)
        answer(code) ==
            [Answer("confirm_action", action_id, code, before)
               EXCEPT !.confirmed = confirmed]
    IN
    /\ IF IsNone(found)
       THEN /\ resp' = answer(404)
            /\ UNCHANGED actions
       ELSE IF ~confirmed
       THEN LET action == rejected_action(Get(found)) IN
            /\ actions' = db_update_action(action)
            /\ resp' = [answer(200) EXCEPT
                          !.trace = << Get(found).status, action.status >>]
       ELSE \E env \in Envs(Get(found)) :
            LET executed == execute(Get(found), FAILSAFE, env) IN
            IF IsNone(executed.propagated)
            THEN /\ actions' = db_update_action(executed.returned)
                 /\ resp' = [answer(200) EXCEPT
                               !.calls = 1, !.done = executed.done,
                               !.exec = Some(executed),
                               !.trace = << Get(found).status,
                                            executed.returned.status >>]
            ELSE /\ actions' = after_execute(executed)
                 /\ resp' = [answer(500) EXCEPT
                               !.calls = 1, !.done = executed.done,
                               !.exec = Some(executed),
                               !.trace = << Get(found).status >>]
    /\ UNCHANGED << backend, now, sessions, FAILSAFE, loop, tables >>

\* confirm_action that executes whether or not the caller confirmed
confirm_action_heedless(action_id, confirmed) ==
    LET found == db_get_action(action_id)
        before == stored_action(action_id)
        answer(code) ==
            [Answer("confirm_action", action_id, code, before)
               EXCEPT !.confirmed = confirmed]
    IN
    /\ IF IsNone(found)
       THEN /\ resp' = answer(404)
            /\ UNCHANGED actions
       ELSE IF Get(found).status # PENDING
       THEN /\ resp' = [answer(400) EXCEPT !.trace = << Get(found).status >>]
            /\ UNCHANGED actions
       ELSE \E env \in Envs(Get(found)) :
            LET executed == execute(Get(found), FAILSAFE, env) IN
            IF IsNone(executed.propagated)
            THEN /\ actions' = db_update_action(executed.returned)
                 /\ resp' = [answer(200) EXCEPT
                               !.calls = 1, !.done = executed.done,
                               !.exec = Some(executed),
                               !.trace = << Get(found).status,
                                            executed.returned.status >>]
            ELSE /\ actions' = after_execute(executed)
                 /\ resp' = [answer(500) EXCEPT
                               !.calls = 1, !.done = executed.done,
                               !.exec = Some(executed),
                               !.trace = << Get(found).status >>]
    /\ UNCHANGED << backend, now, sessions, FAILSAFE, loop, tables >>

\* POST /actions/{action_id}/confirm
confirm_action(action_id, confirmed) ==
    LET found == db_get_action(action_id)
        before == stored_action(action_id)
        answer(code) ==
            [Answer("confirm_action", action_id, code, before)
               EXCEPT !.confirmed = confirmed]
    IN
    /\ IF IsNone(found)
       THEN /\ resp' = answer(404)
            /\ UNCHANGED actions
       ELSE IF Get(found).status # PENDING
       THEN /\ resp' = [answer(400) EXCEPT !.trace = << Get(found).status >>]
            /\ UNCHANGED actions
       ELSE IF ~confirmed
       THEN LET action == rejected_action(Get(found)) IN
            /\ actions' = db_update_action(action)
            /\ resp' = [answer(200) EXCEPT
                          !.trace = << Get(found).status, action.status >>]
       ELSE \E env \in Envs(Get(found)) :
            LET executed == execute(Get(found), FAILSAFE, env) IN
            IF IsNone(executed.propagated)
            THEN /\ actions' = db_update_action(executed.returned)
                 /\ resp' = [answer(200) EXCEPT
                               !.calls = 1, !.done = executed.done,
                               !.exec = Some(executed),
                               !.trace = << Get(found).status,
                                            executed.returned.status >>]
            ELSE /\ actions' = after_execute(executed)
                 /\ resp' = [answer(500) EXCEPT
                               !.calls = 1, !.done = executed.done,
                               !.exec = Some(executed),
                               !.trace = << Get(found).status >>]
    /\ UNCHANGED << backend, now, sessions, FAILSAFE, loop, tables >>

\* a reset that keeps the error message of the failed attempt
reset_action_keeps_error(action) == [action EXCEPT !.status = PENDING]

\* what retry_action hands to the executor
reset_action(action) ==
    [action EXCEPT !.status = PENDING, !.error_message = None]

\* retry_action that refuses only actions that are still Pending
retry_action_loose(action_id) ==
    LET found == db_get_action(action_id)
        before == stored_action(action_id)
        answer(code) == Answer("retry_action", action_id, code, before)
    IN
    /\ IF IsNone(found)
       THEN /\ resp' = answer(404)
            /\ UNCHANGED actions
       ELSE IF Get(found).status = PENDING
       THEN /\ resp' = [answer(400) EXCEPT !.trace = << Get(found).status >>]
            /\ UNCHANGED actions
       ELSE \E env \in Envs(reset_action(Get(found))) :
            LET action == reset_action(Get(found))
                executed == execute(action, FAILSAFE, env)
            IN
            IF IsNone(executed.propagated)
            THEN /\ actions' = db_update_action(executed.returned)
                 /\ resp' = [answer(200) EXCEPT
                               !.calls = 1, !.done = executed.done,
                               !.exec = Some(executed),
                               !.trace = << Get(found).status, action.status,
                                            executed.returned.status >>]
            ELSE /\ actions' = after_execute(executed)
                 /\ resp' = [answer(500) EXCEPT
                               !.calls = 1, !.done = executed.done,
                               !.exec = Some(executed),
                               !.trace = << Get(found).status, action.status >>]
    /\ UNCHANGED << backend, now, sessions, FAILSAFE, loop, tables >>

\* POST /actions/{action_id}/retry
retry_action(action_id) ==
    LET found == db_get_action(action_id)
        before == stored_action(action_id)
        answer(code) == Answer("retry_action", action_id, code, before)
    IN
    /\ IF IsNone(found)
       THEN /\ resp' = answer(404)
            /\ UNCHANGED actions
       ELSE IF Get(found).status # FAILED
       THEN /\ resp' = [answer(400) EXCEPT !.trace = << Get(found).status >>]
            /\ UNCHANGED actions
       ELSE \E env \in Envs(reset_action(Get(found))) :
            LET action == reset_action(Get(found))
                executed == execute(action, FAILSAFE, env)
            IN
            IF IsNone(executed.propagated)
            THEN /\ actions' = db_update_action(executed.returned)
                 /\ resp' = [answer(200) EXCEPT
                               !.calls = 1, !.done = executed.done,
                               !.exec = Some(executed),
                               !.trace = << Get(found).status, action.status,
                                            executed.returned.status >>]
            ELSE /\ actions' = after_execute(executed)
                 /\ resp' = [answer(500) EXCEPT
                               !.calls = 1, !.done = executed.done,
                               !.exec = Some(executed),
                               !.trace = << Get(found).status, action.status >>]
    /\ UNCHANGED << backend, now, sessions, FAILSAFE, loop, tables >>

\* executor.execute(action) called on a new Action, as the tests of
\* tests/test_vlm/test_action_executor.py call it
call_execute(input) ==
    \E env \in Envs(Action("a1", "s1", 1, input.action_type,
                            input.target_element, input.target, input.text, now)) :
        LET action == Action("a1", "s1", 1, input.action_type,
                             input.target_element, input.target, input.text, now)
            executed == execute(action, FAILSAFE, env)
        IN
        /\ resp' = [Answer("execute", action.id,
                           IF IsNone(executed.propagated) THEN 200 ELSE 500, None)
                      EXCEPT !.calls = 1, !.done = executed.done,
                             !.exec = Some(executed),
                             !.trace = << action.status >>
                                         \o IF IsNone(executed.propagated)
                                            THEN << executed.returned.status >>
                                            ELSE << >>]
        /\ UNCHANGED << backend, now, sessions, actions, FAILSAFE, loop, tables >>

-----------------------------------------------------------------------------
(* macagent/vlm/vlm_client.py                                              *)
(*                                                                         *)
(* A text of the model is a sequence of characters; a JSON document inside *)
(* it stands as one element, the name of the document (Doc gives its       *)
(* value). Slices, strip, lower, startswith, endswith and "in" work on the *)
(* sequence as Python's work on the string.                                *)

Whitespace == {" ", "\n"}

RECURSIVE lstrip(_)
lstrip(text) ==
    IF text # << >> /\ Head(text) \in Whitespace THEN lstrip(Tail(text))
    ELSE text

RECURSIVE rstrip(_)
rstrip(text) ==
    IF text # << >> /\ text[Len(text)] \in Whitespace
    THEN rstrip(SubSeq(text, 1, Len(text) - 1))
    ELSE text

\* str.strip()
strip(text) == rstrip(lstrip(text))

\* str.lower(), on the letters that occur
lower_char(c) ==
    CASE c = "T" -> "t" [] c = "R" -> "r" [] c = "U" -> "u" [] c = "E" -> "e"
      [] c = "F" -> "f" [] c = "A" -> "a" [] c = "L" -> "l" [] c = "S" -> "s"
      [] c = "J" -> "j" [] c = "O" -> "o" [] c = "N" -> "n"
      [] OTHER -> c
lower(text) == [i \in 1..Len(text) |-> lower_char(text[i])]

startswith(text, prefix) ==
    Len(text) >= Len(prefix) /\ SubSeq(text, 1, Len(prefix)) = prefix
endswith(text, suffix) ==
    /\ Len(text) >= Len(suffix)
    /\ SubSeq(text, Len(text) - Len(suffix) + 1, Len(text)) = suffix

\* What self.client.chat.completions.create(...) comes to:
\*   raises   the call raises (cls: an error of the transport or the service)
\*   empty    it returns a response whose choices are empty
\*   null     it returns a choice whose message.content is None
\*   text     it returns a choice with the text as content
Completion(kind, cls, text) == [kind |-> kind, cls |-> cls, text |-> text]
Failing(cls) == Completion("raises", cls, << >>)
NoChoices == Completion("empty", "none", << >>)
NoContent == Completion("null", "none", << >>)
Content(text) == Completion("text", "none", text)

\* the errors of the openai client: all are Exceptions
TransportErrors == {"APIConnectionError", "RateLimitError"}

\* the exception that "response.choices[0].message.content" and what is
\* done with the content raise before any text is had (None: none)
content_error(completion) ==
    CASE completion.kind = "raises" -> Some(Exc(completion.cls, << "API", "Error" >>))
      [] completion.kind = "empty" ->
            Some(Exc("IndexError", << "list", "index", "out", "of", "range" >>))
      [] completion.kind = "null" ->
            Some(Exc("AttributeError", << "NoneType", "has", "no", "attribute" >>))
      [] OTHER -> None

\* detect_payment_screen with an except clause that returns False
detect_payment_screen_trusting(completion) ==
    IF ~IsNone(content_error(completion)) THEN FALSE
    ELSE Contains(lower(strip(completion.text)), << "t", "r", "u", "e" >>)

\* VLMClient.detect_payment_screen: "true" in content.strip().lower(), and
\* True when anything raises
detect_payment_screen(completion) ==
    IF ~IsNone(content_error(completion)) THEN TRUE
    ELSE Contains(lower(strip(completion.text)), << "t", "r", "u", "e" >>)

\* the call, as the tests of tests/test_vlm/test_vlm_client.py make it
call_detect_payment_screen(completion) ==
    /\ resp' = [Answer("detect_payment_screen", "none", 200, None)
                  EXCEPT !.input = Some(completion),
                         !.out = Some(detect_payment_screen(completion))]
    /\ UNCHANGED << backend, now, sessions, actions, FAILSAFE, loop, tables >>

\* JSON values as json.loads returns them, tagged with their kind: None,
\* str, int, list, dict (v: the keys with their values)
JNull == [t |-> "null", v |-> << >>]
JStr(string) == [t |-> "str", v |-> string]
JNum(n) == [t |-> "num", v |-> n]
JList(items) == [t |-> "list", v |-> items]
JObj(members) == [t |-> "obj", v |-> members]

\* "key in data", data.get(key, default), bool(value)
has(data, key) == key \in DOMAIN data.v
get(data, key, default) == IF has(data, key) THEN data.v[key] ELSE default
truthy(value) ==
    CASE value.t = "null" -> FALSE
      [] value.t = "str" -> value.v # ""
      [] value.t = "num" -> value.v # 0
      [] value.t = "list" -> value.v # << >>
      [] value.t = "obj" -> DOMAIN value.v # {}

\* what a step of the parser comes to: an exception or a value
Fails(exc) == [error |-> Some(exc), value |-> None]
Gives(value) == [error |-> None, value |-> Some(value)]

AttributeError(what) == Exc("AttributeError", << what, "has", "no", "attribute", "get" >>)
KeyError(key) == Exc("KeyError", << key >>)
TypeError(what) == Exc("TypeError", << what, "is", "not", "usable", "so" >>)
ValidationError(field) == Exc("ValidationError", << "validation", "error", "for", field >>)
JSONDecodeError == Exc("JSONDecodeError", << "Expecting", "value" >>)

\* lines 166-172 and 186-192: the Coordinates of a candidate or of the
\* recommended action, None when "coordinates" is absent or falsy
parse_coordinates(holder) ==
    LET coords_data == get(holder, "coordinates", JNull) IN
    IF ~truthy(coords_data) THEN Gives(None)
    ELSE IF coords_data.t # "obj" THEN Fails(TypeError("coordinates"))
    ELSE IF ~has(coords_data, "x") THEN Fails(KeyError("x"))
    ELSE IF ~has(coords_data, "y") THEN Fails(KeyError("y"))
    ELSE IF coords_data.v.x.t # "num" \/ coords_data.v.y.t # "num"
    THEN Fails(ValidationError("Coordinates"))
    ELSE Gives(Some(Coordinates(coords_data.v.x.v, coords_data.v.y.v)))

\* confidence: float = Field(ge=0.0, le=1.0), in hundredths
valid_confidence(value) == value.t = "num" /\ value.v \in 0..100

\* lines 165-180: the ActionTarget of one of "available_actions"
parse_candidate(action_data) ==
    IF action_data.t # "obj" THEN Fails(AttributeError(action_data.t))
    ELSE LET coordinates == parse_coordinates(action_data)
             confidence == get(action_data, "confidence", JNum(50))
         IN  IF ~IsNone(coordinates.error) THEN Fails(Get(coordinates.error))
             ELSE IF ~has(action_data, "element") THEN Fails(KeyError("element"))
             ELSE IF action_data.v.element.t # "str" \/ ~valid_confidence(confidence)
             THEN Fails(ValidationError("ActionTarget"))
             ELSE Gives(ActionTarget(action_data.v.element.v,
                                     Get(coordinates.value), confidence.v))

\* "for action_data in data.get("available_actions", [])": a list gives its
\* items; an empty str or dict gives none, a non-empty one its characters
\* or keys, which are str; anything else cannot be iterated
parse_candidates(data) ==
    LET listed == get(data, "available_actions", JList(<< >>)) IN
    IF listed.t \in {"null", "num"} THEN Fails(TypeError(listed.t))
    ELSE IF listed.t \in {"str", "obj"}
    THEN IF truthy(listed) THEN Fails(AttributeError("str")) ELSE Gives(<< >>)
    ELSE LET each == [i \in 1..Len(listed.v) |-> parse_candidate(listed.v[i])]
             bad == {i \in 1..Len(listed.v) : ~IsNone(each[i].error)}
         IN  IF bad # {}
             THEN Fails(Get(each[CHOOSE i \in bad : \A j \in bad : i <= j].error))
             ELSE Gives([i \in 1..Len(listed.v) |-> Get(each[i].value)])

\* ActionType(value): the member with that value
to_ActionType(value) ==
    IF value.t = "str" /\ value.v \in ActionType THEN Gives(value.v)
    ELSE Fails(Exc("ValueError", << IF value.t = "str" THEN value.v ELSE value.t,
                                    "is", "not", "a", "valid", "ActionType" >>))

\* lines 183-209: the recommended Action, None when "recommended_action" is
\* absent or falsy. session_id is a new uuid4, as is the id.
parse_recommended(data) ==
    IF ~(has(data, "recommended_action") /\ truthy(data.v.recommended_action))
    THEN Gives(None)
    ELSE LET rec_data == data.v.recommended_action IN
         IF rec_data.t # "obj" THEN Fails(AttributeError(rec_data.t))
         ELSE LET coordinates == parse_coordinates(rec_data)
                  element == get(rec_data, "target", JStr(""))
                  confidence == get(rec_data, "confidence", JNum(80))
                  action_type == to_ActionType(get(rec_data, "action_type", JStr("click")))
                  text == get(rec_data, "text", JNull)
              IN  IF ~IsNone(coordinates.error) THEN Fails(Get(coordinates.error))
                  ELSE IF element.t # "str" \/ ~valid_confidence(confidence)
                  THEN Fails(ValidationError("ActionTarget"))
                  ELSE IF ~IsNone(action_type.error) THEN Fails(Get(action_type.error))
                  ELSE IF text.t \notin {"str", "null"} THEN Fails(ValidationError("Action"))
                  ELSE Gives(Some(
                         Action("uuid4", "uuid4", 0, Get(action_type.value), None,
                                Some(ActionTarget(element.v, Get(coordinates.value),
                                                  confidence.v)),
                                IF text.t = "str" THEN Some(text.v) ELSE None,
                                now)))

\* line 215: data.get("recommended_action", {}).get("reasoning")
parse_reasoning(data) ==
    LET recommended == get(data, "recommended_action", JObj(<< >>)) IN
    IF recommended.t # "obj" THEN Fails(AttributeError(recommended.t))
    ELSE LET reasoning == get(recommended, "reasoning", JNull) IN
         IF reasoning.t = "null" THEN Gives(None)
         ELSE IF reasoning.t = "str" THEN Gives(Some(reasoning.v))
         ELSE Fails(ValidationError("VLMAnalysisResult"))

VLMAnalysisResult(current_screen, available_actions, recommended_action, reasoning) ==
    [current_screen |-> current_screen, available_actions |-> available_actions,
     recommended_action |-> recommended_action, reasoning |-> reasoning]

\* A response text is a sequence of characters in which a JSON document
\* stands as one element, the name of the document (Documents below).
\* the grave accent, U+0060, which fences a code block
Backtick == "U+0060"
Fence == << Backtick, Backtick, Backtick >>
JsonFence == Fence \o << "j", "s", "o", "n" >>

\* text[n:] and text[:-n]
drop_first(text, n) == SubSeq(text, n + 1, Len(text))
drop_last(text, n) == SubSeq(text, 1, Len(text) - n)

\* unwrap that takes off an opening fence only
unwrap_opening_only(response_text) ==
    LET stripped == strip(response_text)
        untagged == IF startswith(stripped, JsonFence)
                    THEN drop_first(stripped, 7) ELSE stripped
        opened == IF startswith(untagged, Fence)
                  THEN drop_first(untagged, 3) ELSE untagged
    IN  strip(opened)

\* lines 153-161: the text handed to json.loads
unwrap(response_text) ==
    LET stripped == strip(response_text)
        untagged == IF startswith(stripped, JsonFence)
                    THEN drop_first(stripped, 7) ELSE stripped
        opened == IF startswith(untagged, Fence)
                  THEN drop_first(untagged, 3) ELSE untagged
        closed == IF endswith(opened, Fence)
                  THEN drop_last(opened, 3) ELSE opened
    IN  strip(closed)

Placed == [x |-> JNum(100), y |-> JNum(200)]
Candidate == [element |-> JStr("Pay"), coordinates |-> JObj(Placed), confidence |-> JNum(90)]
Recommending(action_type) ==
    [current_screen |-> JStr("Cart"),
     available_actions |-> JList(<< JObj(Candidate) >>),
     recommended_action |->
        JObj([action_type |-> action_type, target |-> JStr("Pay"),
              coordinates |-> JObj(Placed), text |-> JStr("hello"),
              reasoning |-> JStr("next")])]

\* The JSON documents a reply is made of, by name
Documents ==
    [click |-> JObj(Recommending(JStr(CLICK))),
     type |-> JObj(Recommending(JStr(TYPE))),
     scroll |-> JObj(Recommending(JStr(SCROLL))),
     wait |-> JObj(Recommending(JStr(WAIT))),
     double_click |-> JObj(Recommending(JStr(DOUBLE_CLICK))),
     right_click |-> JObj(Recommending(JStr(RIGHT_CLICK))),
     drag |-> JObj(Recommending(JStr("drag"))),
     upper |-> JObj(Recommending(JStr("CLICK"))),
     untyped |-> JObj(Recommending(JNull)),
     defaults |-> JObj([recommended_action |-> JObj([reasoning |-> JStr("next")])]),
     absent |-> JObj([current_screen |-> JStr("Cart"),
                      available_actions |-> JList(<< JObj(Candidate) >>)]),
     null |-> JObj([current_screen |-> JStr("Cart"),
                    available_actions |-> JList(<< JObj(Candidate) >>),
                    recommended_action |-> JNull]),
     hollow |-> JObj([current_screen |-> JStr("Cart"),
                      available_actions |-> JList(<< >>),
                      recommended_action |-> JObj(<< >>)]),
     empty |-> JObj(<< >>),
     array |-> JList(<< JObj(Candidate) >>),
     unplaced |-> JObj([available_actions |-> JList(<< JObj([element |-> JStr("Pay")]) >>)]),
     half_placed |-> JObj([available_actions |->
                       JList(<< JObj([element |-> JStr("Pay"),
                                      coordinates |-> JObj([x |-> JNum(100)])]) >>)]),
     half_recommended |-> JObj([recommended_action |->
                       JObj([action_type |-> JStr(CLICK), target |-> JStr("Pay"),
                             coordinates |-> JObj([y |-> JNum(200)])])]),
     unnamed |-> JObj([available_actions |->
                       JList(<< JObj([coordinates |-> JObj(Placed)]) >>)]),
     overconfident |-> JObj([available_actions |->
                       JList(<< JObj([element |-> JStr("Pay"), confidence |-> JNum(150)]) >>)])]

\* json.loads(text): the document when the text is exactly one document
json_loads(text) ==
    IF Len(text) = 1 /\ text[1] \in DOMAIN Documents
    THEN Gives(Documents[text[1]])
    ELSE Fails(JSONDecodeError)

\* lines 218-221, with the exception let through as it was raised
reraise_as_raised(e) == Fails(e)

\* lines 218-221: except Exception as e:
\*     raise ValueError(f"Failed to parse VLM response: {e}")
reraise(e) ==
    Fails(ValueError(<< "Failed", "to", "parse", "VLM", "response" >> \o e.message))

\* lines 163-216, once the text is decoded
parse_data(data) ==
    IF data.t # "obj" THEN Fails(AttributeError(data.t))
    ELSE LET available_actions == parse_candidates(data)
             recommended_action == parse_recommended(data)
             reasoning == parse_reasoning(data)
             current_screen == get(data, "current_screen", JStr("Unknown"))
         IN  IF ~IsNone(available_actions.error) THEN Fails(Get(available_actions.error))
             ELSE IF ~IsNone(recommended_action.error)
             THEN Fails(Get(recommended_action.error))
             ELSE IF ~IsNone(reasoning.error) THEN Fails(Get(reasoning.error))
             ELSE IF current_screen.t # "str" THEN Fails(ValidationError("VLMAnalysisResult"))
             ELSE Gives(VLMAnalysisResult(current_screen.v, Get(available_actions.value),
                                          Get(recommended_action.value),
                                          Get(reasoning.value)))

\* VLMClient._parse_response
_parse_response(response_text) ==
    LET data == json_loads(unwrap(response_text)) IN
    IF ~IsNone(data.error) THEN reraise(Get(data.error))
    ELSE LET result == parse_data(Get(data.value)) IN
         IF ~IsNone(result.error) THEN reraise(Get(result.error)) ELSE result

call_parse_response(response_text) ==
    /\ resp' = [Answer("parse_response", "none", 200, None)
                  EXCEPT !.input = Some(response_text),
                         !.out = Some(_parse_response(response_text))]
    /\ UNCHANGED << backend, now, sessions, actions, FAILSAFE, loop, tables >>

\* VLMClient.analyze_screen that answers a failure with no result
vlm_analyze_screen_quiet(completion) ==
    IF completion.kind = "text" /\ IsNone(_parse_response(completion.text).error)
    THEN _parse_response(completion.text)
    ELSE [error |-> None, value |-> None]

\* VLMClient.analyze_screen: whatever is raised is logged and raised again.
\* A content of None is handed to _parse_response, where None.strip()
\* raises inside the try.
vlm_analyze_screen(completion) ==
    CASE completion.kind \in {"raises", "empty"} -> Fails(Get(content_error(completion)))
      [] completion.kind = "null" -> reraise(Get(content_error(completion)))
      [] OTHER -> _parse_response(completion.text)

\* str(e), the detail of the HTTPException
str(e) == e.message

\* POST /analyze/screen: the analysis, then the payment check, whose
\* outcome is only logged; any exception is answered with 500.
\*   analysis  the completion of the analysis call
\*   payment   the completion of the payment call
analyze_screen(analysis, payment) ==
    LET result == vlm_analyze_screen(analysis)
        is_payment == detect_payment_screen(payment)
    IN  /\ resp' = IF ~IsNone(result.error)
                   THEN [Answer("analyze_screen", "none", 500, None)
                           EXCEPT !.input = Some(<< analysis, payment >>),
                                  !.out = Some([result |-> None,
                                                detail |-> Some(str(Get(result.error)))])]
                   ELSE [Answer("analyze_screen", "none", 200, None)
                           EXCEPT !.input = Some(<< analysis, payment >>),
                                  !.out = Some([result |-> result.value,
                                                detail |-> None])]
        /\ UNCHANGED << backend, now, sessions, actions, FAILSAFE, loop, tables >>

-----------------------------------------------------------------------------
(* The store called directly, as tests/test_database does, and             *)
(* DELETE /sessions/{session_id}.                                          *)

\* DELETE /sessions/{session_id}: 404 when the store deleted no session
delete_session(session_id) ==
    LET deleted == db_delete_session(session_id) IN
    /\ sessions' = deleted.store.sessions
    /\ actions' = deleted.store.actions
    /\ resp' = Answer("delete_session", session_id,
                      IF deleted.returned THEN 200 ELSE 404,
                      db_get_session(session_id))
    /\ UNCHANGED << backend, now, FAILSAFE, loop, tables >>

Gets == {"get_user", "get_session", "get_action", "get_route"}

\* get_user, get_session, get_action, get_route of the store
db_get(method, id) ==
    CASE method = "get_user" -> db_get_user(id)
      [] method = "get_session" -> db_get_session(id)
      [] method = "get_action" -> db_get_action(id)
      [] method = "get_route" -> db_get_route(id)

\* no get of either store raises when nothing is found: dict.get, or
\* "if not result.data: return None"
call_get(method, id) ==
    /\ resp' = [Answer(method, id, 200, db_get(method, id))
                  EXCEPT !.out = Some(Gives(db_get(method, id)))]
    /\ UNCHANGED << backend, now, sessions, actions, FAILSAFE, loop, tables >>

\* raise ValueError(f"Session not found: {session.id}") and the like
NotFound(entity) == ValueError(<< entity, "not", "found" >>)

\* what an update did: it raised, or it returned the entity
Updated(error, entity) ==
    [error |-> error, value |-> IF IsNone(error) THEN Some(entity) ELSE None]

\* MockDatabase.update_session, update_action and update_route raise for an
\* identifier they do not hold; those of SupabaseDatabase have no such test
raises_not_found(table, id) == backend = MOCK /\ id \notin DOMAIN table

call_update_session(session) ==
    /\ sessions' = db_update_session(session)
    /\ resp' = [Answer("update_session", session.id, 200, db_get_session(session.id))
                  EXCEPT !.out = Some(Updated(
                      IF raises_not_found(sessions, session.id)
                      THEN Some(NotFound("Session")) ELSE None, session))]
    /\ UNCHANGED << backend, now, actions, FAILSAFE, loop, tables >>

call_update_action(action) ==
    /\ actions' = db_update_action(action)
    /\ resp' = [Answer("update_action", action.id, 200, db_get_action(action.id))
                  EXCEPT !.out = Some(Updated(
                      IF raises_not_found(actions, action.id)
                      THEN Some(NotFound("Action")) ELSE None, action))]
    /\ UNCHANGED << backend, now, sessions, FAILSAFE, loop, tables >>

call_update_route(route) ==
    /\ routes' = db_update_route(route)
    /\ resp' = [Answer("update_route", route.id, 200, db_get_route(route.id))
                  EXCEPT !.out = Some(Updated(
                      IF raises_not_found(routes, route.id)
                      THEN Some(NotFound("Route")) ELSE None, route))]
    /\ UNCHANGED << backend, now, sessions, actions, FAILSAFE, loop, users >>

\* update_user_consent: MockDatabase raises when it does not hold the user,
\* SupabaseDatabase when it does not find the user after the update
call_update_user_consent(user_id, consent_given) ==
    /\ users' = db_update_user_consent(user_id, consent_given)
    /\ resp' = [Answer("update_user_consent", user_id, 200, db_get_user(user_id))
                  EXCEPT !.out = Some(
                      IF user_id \notin DOMAIN users
                      THEN Fails(NotFound("User"))
                      ELSE Gives(db_update_user_consent(user_id, consent_given)[user_id]))]
    /\ UNCHANGED << backend, now, sessions, actions, FAILSAFE, loop, routes >>

create_user(id) ==
    /\ id \notin DOMAIN users
    /\ users' = db_create_user(User(id, now, FALSE, None))
    /\ resp' = Answer("create_user", id, 200, None)
    /\ UNCHANGED << backend, now, sessions, actions, FAILSAFE, loop, routes >>

create_route(id, session_id) ==
    /\ id \notin DOMAIN routes
    /\ routes' = db_create_route(Route(id, session_id, << "home" >>, << >>, now))
    /\ resp' = Answer("create_route", id, 200, None)
    /\ UNCHANGED << backend, now, sessions, actions, FAILSAFE, loop, users >>

\* the orders in which the stored actions can have been created
Orders ==
    {order \in [1..Cardinality(DOMAIN actions) -> DOMAIN actions] :
        \A i, j \in DOMAIN order : order[i] = order[j] => i = j}

\* list_actions is called, the store holding its actions in some order
call_list_actions(session_id, limit) ==
    \E order \in Orders :
        /\ resp' = [Answer("list_actions", session_id, 200, None)
                      EXCEPT !.input = Some([order |-> order, limit |-> limit]),
                             !.out = Some(db_list_actions(order, session_id, limit))]
        /\ UNCHANGED << backend, now, sessions, actions, FAILSAFE, loop, tables >>

-----------------------------------------------------------------------------
(* macagent/api/routers/users.py *)

ConsentResponse(user_id, consent_given, message) ==
    [user_id |-> user_id, consent_given |-> consent_given, message |-> message]

\* save_consent that stores a new User whether or not one is stored
save_consent_anew(user_id, consent_given) ==
    /\ users' = db_create_user(User(user_id, now, consent_given, None))
    /\ resp' = [Answer("save_consent", user_id, 200, db_get_user(user_id))
                  EXCEPT !.input = Some(consent_given),
                         !.out = Some(ConsentResponse(user_id, consent_given,
                                        << "User", "created", "with", "consent" >>))]
    /\ UNCHANGED << backend, now, sessions, actions, FAILSAFE, loop, routes >>

\* POST /users/consent: the consent of a stored user is updated, a user
\* that is not stored is created with it (created_at = utcnow())
save_consent(user_id, consent_given) ==
    LET user == db_get_user(user_id) IN
    /\ IF ~IsNone(user)
       THEN /\ users' = db_update_user_consent(user_id, consent_given)
            /\ resp' = [Answer("save_consent", user_id, 200, user)
                          EXCEPT !.input = Some(consent_given),
                                 !.out = Some(ConsentResponse(
                                     users'[user_id].id, users'[user_id].consent_given,
                                     << "Consent", "updated" >>))]
       ELSE /\ users' = db_create_user(User(user_id, now, consent_given, None))
            /\ resp' = [Answer("save_consent", user_id, 200, user)
                          EXCEPT !.input = Some(consent_given),
                                 !.out = Some(ConsentResponse(
                                     user_id, consent_given,
                                     << "User", "created", "with", "consent" >>))]
    /\ UNCHANGED << backend, now, sessions, actions, FAILSAFE, loop, routes >>

\* GET /users/consent/{user_id}
get_consent(user_id) ==
    LET user == db_get_user(user_id) IN
    /\ resp' = IF IsNone(user) THEN Answer("get_consent", user_id, 404, user)
               ELSE [Answer("get_consent", user_id, 200, user)
                       EXCEPT !.out = Some([user_id |-> Get(user).id,
                                            consent_given |-> Get(user).consent_given,
                                            consent_timestamp |->
                                                Get(user).consent_timestamp])]
    /\ UNCHANGED << backend, now, sessions, actions, FAILSAFE, loop, tables >>

-----------------------------------------------------------------------------
(* Requests on the event loop. uvicorn.run (main.py) starts one server      *)
(* process with one event loop; confirm_action and retry_action are        *)
(* "async def", so their bodies run on the loop's thread. The awaits of a  *)
(* handler are on coroutines of the store that never suspend, and          *)
(* executor.execute is an ordinary call: from the start of a handler's     *)
(* body to its return the loop's thread runs nothing else.                 *)

Requests == {"r1", "r2"}

\* a request: where its handler stands (idle, ready, get, execute, done),
\* what it asks (confirm with confirmed = true, or retry) of which action,
\* the call of execute it makes, how many primitive operations of the call
\* are over, and the answer. For a request about a session (delete, get):
\* the session, "second" when one of the two deletions is done, and what
\* the store held when a get read it.
NoTask ==
    [pc |-> "idle", kind |-> "none", id |-> "none", executed |-> None,
     next |-> 0, code |-> 0, seen |-> None]

\* the server accepts a request and schedules its handler on the loop
accept(r, kind, action_id) ==
    /\ tasks[r].pc = "idle"
    /\ tasks' = [tasks EXCEPT ![r] = [NoTask EXCEPT !.pc = "ready",
                                                    !.kind = kind,
                                                    !.id = action_id]]
    /\ UNCHANGED << backend, now, sessions, actions, FAILSAFE, resp,
                    running, device, tables >>

\* a handler declared "def": the server runs it on a thread of its pool,
\* whatever the loop's thread is doing
run_handler_threaded(r) ==
    /\ tasks[r].pc = "ready"
    /\ tasks' = [tasks EXCEPT ![r].pc = "get"]
    /\ UNCHANGED << backend, now, sessions, actions, FAILSAFE, resp,
                    running, device, tables >>

\* the loop's thread, when it runs no handler, starts a scheduled one
run_handler(r) ==
    /\ tasks[r].pc = "ready"
    /\ running = None
    /\ running' = Some(r)
    /\ tasks' = [tasks EXCEPT ![r].pc = "get"]
    /\ UNCHANGED << backend, now, sessions, actions, FAILSAFE, resp, device,
                    tables >>

\* a handler whose read of the action suspends: once it has read, the
\* loop's thread is free to start another handler
handler_get_yielding(r) ==
    LET t == tasks[r]
        found == db_get_action(t.id)
        wanted == IF t.kind = "confirm_action" THEN PENDING ELSE FAILED
        refuse(code) ==
            /\ tasks' = [tasks EXCEPT ![r].pc = "done", ![r].code = code]
            /\ running' = None
    IN
    /\ t.pc = "get"
    /\ IF IsNone(found) THEN refuse(404)
       ELSE IF Get(found).status # wanted THEN refuse(400)
       ELSE LET action == IF t.kind = "confirm_action" THEN Get(found)
                          ELSE reset_action(Get(found))
            IN  \E env \in Envs(action) :
                   /\ tasks' = [tasks EXCEPT
                                  ![r].pc = "execute", ![r].next = 0,
                                  ![r].executed =
                                      Some(execute(action, FAILSAFE, env))]
                   /\ running' = None
    /\ UNCHANGED << backend, now, sessions, actions, FAILSAFE, resp, device,
                    tables >>

\* the handler reads the action and checks its status (404, 400), and
\* calls execute: what befalls the call is chosen here
handler_get(r) ==
    LET t == tasks[r]
        found == db_get_action(t.id)
        wanted == IF t.kind = "confirm_action" THEN PENDING ELSE FAILED
        refuse(code) ==
            /\ tasks' = [tasks EXCEPT ![r].pc = "done", ![r].code = code]
            /\ running' = None
    IN
    /\ t.pc = "get"
    /\ IF IsNone(found) THEN refuse(404)
       ELSE IF Get(found).status # wanted THEN refuse(400)
       ELSE LET action == IF t.kind = "confirm_action" THEN Get(found)
                          ELSE reset_action(Get(found))
            IN  \E env \in Envs(action) :
                   /\ tasks' = [tasks EXCEPT
                                  ![r].pc = "execute", ![r].next = 0,
                                  ![r].executed =
                                      Some(execute(action, FAILSAFE, env))]
                   /\ UNCHANGED running
    /\ UNCHANGED << backend, now, sessions, actions, FAILSAFE, resp, device,
                    tables >>

\* the next primitive operation of the call is performed
handler_perform(r) ==
    LET t == tasks[r]
        done == Get(t.executed).done
    IN
    /\ t.pc = "execute"
    /\ t.next < Len(done)
    /\ tasks' = [tasks EXCEPT ![r].next = t.next + 1]
    /\ device' = IF done[t.next + 1].fn \in {"pause", "sleep"} THEN device
                 ELSE Append(device, [request |-> r, op |-> done[t.next + 1]])
    /\ UNCHANGED << backend, now, sessions, actions, FAILSAFE, resp, running,
                    tables >>

\* execute returns, the handler stores the action and answers
handler_update(r) ==
    LET t == tasks[r]
        executed == Get(t.executed)
    IN
    /\ t.pc = "execute"
    /\ t.next = Len(executed.done)
    /\ actions' = IF IsNone(executed.propagated)
                  THEN db_update_action(executed.returned)
                  ELSE after_execute(executed)
    /\ tasks' = [tasks EXCEPT
                   ![r].pc = "done",
                   ![r].code = IF IsNone(executed.propagated) THEN 200 ELSE 500]
    /\ running' = None
    /\ UNCHANGED << backend, now, sessions, FAILSAFE, resp, device, tables >>

\* delete_session's handler with a store whose calls suspend: after the
\* first deletion the loop's thread is free to run another handler
handler_delete_first_yielding(r) ==
    LET t == tasks[r] IN
    /\ t.pc = "get" /\ t.kind = "delete_session"
    /\ IF deletes_nothing(t.id)
       THEN /\ tasks' = [tasks EXCEPT ![r].pc = "done", ![r].code = 404]
            /\ UNCHANGED << sessions, actions >>
       ELSE /\ tasks' = [tasks EXCEPT
                           ![r].pc = "second",
                           ![r].code = IF t.id \in DOMAIN sessions THEN 200 ELSE 404]
            /\ sessions' = delete_first(Store(sessions, actions), t.id).sessions
            /\ actions' = delete_first(Store(sessions, actions), t.id).actions
    /\ running' = None
    /\ UNCHANGED << backend, now, FAILSAFE, resp, device, tables >>

\* DELETE /sessions/{session_id}, to the end of the first deletion of
\* db.delete_session. "await db.delete_session(...)" does not suspend: the
\* coroutine has no await of its own, the Supabase client's execute() is a
\* blocking call.
handler_delete_first(r) ==
    LET t == tasks[r] IN
    /\ t.pc = "get" /\ t.kind = "delete_session"
    /\ IF deletes_nothing(t.id)
       THEN /\ tasks' = [tasks EXCEPT ![r].pc = "done", ![r].code = 404]
            /\ running' = None
            /\ UNCHANGED << sessions, actions >>
       ELSE /\ tasks' = [tasks EXCEPT
                           ![r].pc = "second",
                           ![r].code = IF t.id \in DOMAIN sessions THEN 200 ELSE 404]
            /\ sessions' = delete_first(Store(sessions, actions), t.id).sessions
            /\ actions' = delete_first(Store(sessions, actions), t.id).actions
            /\ UNCHANGED running
    /\ UNCHANGED << backend, now, FAILSAFE, resp, device, tables >>

\* the second deletion, and the answer
handler_delete_second(r) ==
    LET t == tasks[r] IN
    /\ t.pc = "second"
    /\ sessions' = delete_second(Store(sessions, actions), t.id).sessions
    /\ actions' = delete_second(Store(sessions, actions), t.id).actions
    /\ tasks' = [tasks EXCEPT ![r].pc = "done"]
    /\ running' = None
    /\ UNCHANGED << backend, now, FAILSAFE, resp, device, tables >>

\* GET /sessions/{session_id}: one read of the store
handler_read(r) ==
    LET t == tasks[r] IN
    /\ t.pc = "get" /\ t.kind = "get_session"
    /\ tasks' = [tasks EXCEPT
                   ![r].pc = "done",
                   ![r].code = IF IsNone(db_get_session(t.id)) THEN 404 ELSE 200,
                   ![r].seen = Some(Store(sessions, actions))]
    /\ running' = None
    /\ UNCHANGED << backend, now, sessions, actions, FAILSAFE, resp, device,
                    tables >>

\* datetime.utcnow() advances
Tick ==
    /\ now < MaxTime
    /\ now' = now + 1
    /\ UNCHANGED << backend, sessions, actions, FAILSAFE, resp, loop, tables >>

-----------------------------------------------------------------------------

Init ==
    /\ backend \in Backends
    /\ now = 0
    /\ sessions = << >>
    /\ actions = << >>
    /\ FAILSAFE = TRUE
    /\ resp = NoResp
    /\ tasks = [r \in Requests |-> NoTask]
    /\ running = None
    /\ device = << >>
    /\ users = << >>
    /\ routes = << >>

SessionNext ==
    \/ \E id \in SessionIds, u \in UserIds, app \in AppNames, t \in Tasks :
          create_session(id, u, app, t)
    \/ \E id \in SessionIds : pause_session(id)
    \/ \E id \in SessionIds : resume_session(id)
    \/ \E id \in SessionIds : cancel_session(id)
    \/ \E id \in SessionIds, st \in {COMPLETED, SESSION_FAILED} :
          finish_session(id, st)
    \/ Tick

\* the session lifecycle alone
SessionSpec == Init /\ [][SessionNext]_vars

\* the actions that are persisted: one of each kind that meets its
\* precondition, and one for each way of missing it
Button == Some(ActionTarget("button", Some(Coordinates(100, 200)), 90))
Label == Some(ActionTarget("label", None, 50))
ActionInput(action_type, target_element, target, text) ==
    [action_type |-> action_type, target_element |-> target_element,
     target |-> target, text |-> text]
ActionInputs ==
    { ActionInput(CLICK, None, Button, None),
      ActionInput(CLICK, None, Label, None),
      ActionInput(CLICK, None, None, None),
      ActionInput(DOUBLE_CLICK, None, Button, None),
      ActionInput(RIGHT_CLICK, None, Label, None),
      ActionInput(TYPE, None, Button, Some("hello")),
      ActionInput(TYPE, None, None, Some("hello")),
      ActionInput(TYPE, None, Button, Some("")),
      ActionInput(TYPE, None, Button, None),
      ActionInput(SCROLL, Some([amount |-> 3]), Button, None),
      ActionInput(SCROLL, Some([amount |-> 3]), None, None),
      ActionInput(SCROLL, Some(<< >>), Button, None),
      ActionInput(SCROLL, None, Button, None),
      ActionInput(WAIT, Some([duration |-> 1]), None, None),
      ActionInput(WAIT, Some([amount |-> 3]), None, None) }

\* those of them that requests are made on
StoredInputs ==
    { ActionInput(CLICK, None, Button, None),
      ActionInput(CLICK, None, Label, None),
      ActionInput(TYPE, None, Button, Some("hello")) }

\* an action whose action_type was assigned, after its construction, a
\* value that is none of ActionType (the model does not validate assignments)
Reassigned == ActionInput("drag", None, Button, None)

\* the step number a caller that counts a session's steps gives to the
\* session's next action
next_step(session_id) ==
    1 + Cardinality({a \in DOMAIN actions :
                        actions[a].session_id = session_id})

\* Action.id defaults to uuid4(): an identifier no stored action has. Which
\* one it is makes no difference to any handler.
new_id == IF "a1" \notin DOMAIN actions THEN "a1" ELSE "a2"

\* (confirm and retry never look at the session of an action: the actions
\* here are all steps of one session)
ActionNext ==
    \/ \E input \in StoredInputs :
          create_action(new_id, "s1", next_step("s1"), input)
    \/ \E id \in ActionIds, confirmed \in BOOLEAN :
          confirm_action(id, confirmed)
    \/ \E id \in ActionIds : retry_action(id)
    \/ call_execute(Reassigned)

\* the action lifecycle alone
ActionSpec == Init /\ [][ActionNext]_vars

\* One step of one session, with the lifecycle of the session: the requests
\* of the sessions router and of the actions router on the same store
WorkflowNext ==
    \/ \E u \in UserIds, app \in AppNames, t \in Tasks :
          create_session("s1", u, app, t)
    \/ pause_session("s1")
    \/ resume_session("s1")
    \/ cancel_session("s1")
    \/ \E st \in {COMPLETED, SESSION_FAILED} : finish_session("s1", st)
    \/ create_action("a1", "s1", 1, ActionInput(CLICK, None, Button, None))
    \/ \E confirmed \in BOOLEAN : confirm_action("a1", confirmed)
    \/ retry_action("a1")

WorkflowSpec == Init /\ [][WorkflowNext]_vars

\* the executor alone, called as its tests call it
ExecutorNext ==
    \/ \E failsafe \in {None, Some(TRUE), Some(FALSE)} : __init__(failsafe)
    \/ \E input \in ActionInputs \cup {Reassigned} : call_execute(input)

ExecutorSpec == Init /\ [][ExecutorNext]_vars

\* What the model replies, for the payment check
PaymentTexts ==
    { << "t", "r", "u", "e" >>, << "T", "r", "u", "e" >>, << "T", "R", "U", "E" >>,
      << " ", "t", "r", "u", "e", "\n" >>, << "f", "a", "l", "s", "e" >>,
      << "F", "a", "l", "s", "e" >>, << "n", "o" >>, << >> }
Failures == {Failing(cls) : cls \in TransportErrors} \cup {NoChoices, NoContent}
PaymentCompletions == Failures \cup {Content(text) : text \in PaymentTexts}

\* What the model replies, for the analysis: a document or something else,
\* bare or between an opening and a closing of a code block
Newline == << "\n" >>
JsonOpenings == {JsonFence, JsonFence \o Newline, << " " >> \o JsonFence \o Newline}
BareOpenings == {Fence, Fence \o Newline}
OtherOpenings == {Fence \o << "J", "S", "O", "N" >> \o Newline, Fence \o << "j", "s" >> \o Newline}
Openings == {<< >>} \cup JsonOpenings \cup BareOpenings \cup OtherOpenings
Closings == {Fence, Newline \o Fence \o Newline}
Bodies ==
    {<< name >> : name \in DOMAIN Documents}
        \cup {<< "o", "k" >>, << >>, << "click", "click" >>, << "o", "k", "click" >>}
Wrapped(opening, body, closing) == opening \o body \o closing
ResponseTexts ==
    {Wrapped(opening, body, closing) :
        opening \in Openings, body \in Bodies, closing \in {<< >>} \cup Closings}

\* the replies of the analysis call of a request
AnalysisCompletions ==
    Failures \cup {Content(text) : text \in {<< "click" >>, << "type" >>, << "null" >>,
                                             << "drag" >>, << "o", "k" >>,
                                             Wrapped(JsonFence, << "click" >>, Fence)}}

VlmNext ==
    \/ \E completion \in PaymentCompletions : call_detect_payment_screen(completion)
    \/ \E response_text \in ResponseTexts : call_parse_response(response_text)
    \/ \E analysis \in AnalysisCompletions, payment \in PaymentCompletions :
          analyze_screen(analysis, payment)

VlmSpec == Init /\ [][VlmNext]_vars

RouteIds == {"p1", "p2"}

\* sessions and their actions are created and deleted
StoreNext ==
    \/ \E id \in SessionIds, app \in AppNames, t \in Tasks :
          create_session(id, "u1", app, t)
    \/ \E id \in ActionIds, session_id \in SessionIds :
          create_action(id, session_id, next_step(session_id),
                        ActionInput(CLICK, None, Button, None))
    \/ \E session_id \in SessionIds : delete_session(session_id)
    \/ \E id \in ActionIds : call_get("get_action", id)

StoreSpec == Init /\ [][StoreNext]_vars

\* the entities the tests update: a session that was paused, an action
\* that was executed, a route that was walked
PausedSession(id) == Session(id, "u1", "Safari", "open page", PAUSED, 0)
ExecutedAction(id) ==
    [Action(id, "s1", 1, CLICK, None, Button, None, 0) EXCEPT !.status = SUCCESS]
WalkedRoute(id) == Route(id, "s1", << "home" >>, << "home" >>, 0)

\* one entity of each kind is created; both it and one that never is are
\* got and updated
UpdateNext ==
    \/ \E app \in AppNames, t \in Tasks : create_session("s1", "u1", app, t)
    \/ create_action("a1", "s1", 1, ActionInput(CLICK, None, Button, None))
    \/ create_user("u1")
    \/ create_route("p1", "s1")
    \/ \E id \in UserIds : call_get("get_user", id)
    \/ \E id \in SessionIds : call_get("get_session", id)
    \/ \E id \in ActionIds : call_get("get_action", id)
    \/ \E id \in RouteIds : call_get("get_route", id)
    \/ \E id \in SessionIds : call_update_session(PausedSession(id))
    \/ \E id \in ActionIds : call_update_action(ExecutedAction(id))
    \/ \E id \in RouteIds : call_update_route(WalkedRoute(id))
    \/ \E id \in UserIds, consent_given \in BOOLEAN :
          call_update_user_consent(id, consent_given)

UpdateSpec == Init /\ [][UpdateNext]_vars

\* two actions are stored: a Pending type action and a scroll action that
\* has Failed, both with coordinates to click on first
Stored(id, input, status, error_message) ==
    [Action(id, "s1", 1, input.action_type, input.target_element,
            input.target, input.text, 0)
       EXCEPT !.status = status, !.error_message = error_message]
Typing == Stored("a1", ActionInput(TYPE, None, Button, Some("hello")), PENDING, None)
Scrolling ==
    Stored("a2", ActionInput(SCROLL, Some([amount |-> 3]), Button, None),
           FAILED, Some(PrimitiveError.message))

LoopInit ==
    /\ backend \in Backends
    /\ now = 0
    /\ sessions = << >>
    /\ actions = [id \in ActionIds |->
                    LET action == IF id = "a1" THEN Typing ELSE Scrolling IN
                    IF backend = MOCK THEN action
                    ELSE supabase_action_row(action)]
    /\ FAILSAFE = TRUE
    /\ resp = NoResp
    /\ tasks = [r \in Requests |-> NoTask]
    /\ running = None
    /\ device = << >>
    /\ users = << >>
    /\ routes = << >>

LoopNext ==
    \/ \E r \in Requests, kind \in {"confirm_action", "retry_action"},
          id \in ActionIds : accept(r, kind, id)
    \/ \E r \in Requests : run_handler(r)
    \/ \E r \in Requests : handler_get(r)
    \/ \E r \in Requests : handler_perform(r)
    \/ \E r \in Requests : handler_update(r)

\* concurrent confirm and retry requests
LoopSpec == LoopInit /\ [][LoopNext]_vars

\* the step numbers a caller gives, and the limits it lists with
MaxStep == 2
Steps == 1..MaxStep
DefaultLimit == 1000
Limits == {1, 2, DefaultLimit}
ListIds == {"a1", "a2", "a3"}

\* actions are stored with the step numbers their creator gives them, in
\* any order, and listed
ListNext ==
    \/ \E id \in ListIds, session_id \in SessionIds, step_number \in Steps :
          create_action(id, session_id, step_number,
                        ActionInput(CLICK, None, Button, None))
    \/ \E session_id \in SessionIds, limit \in Limits :
          call_list_actions(session_id, limit)

ListSpec == Init /\ [][ListNext]_vars

\* consent is saved and read as time passes
ConsentNext ==
    \/ \E user_id \in UserIds, consent_given \in BOOLEAN :
          save_consent(user_id, consent_given)
    \/ \E user_id \in UserIds : get_consent(user_id)
    \/ Tick

ConsentSpec == Init /\ [][ConsentNext]_vars

\* two sessions are stored, each with one action
DeletionInit ==
    /\ backend \in Backends
    /\ now = 0
    /\ sessions = [id \in SessionIds |->
                     LET session == Session(id, "u1", "Safari", "open page", RUNNING, 0)
                     IN  IF backend = MOCK THEN session
                         ELSE supabase_session_row(session)]
    /\ actions = [id \in ActionIds |->
                    LET action == Action(id, IF id = "a1" THEN "s1" ELSE "s2", 1,
                                         CLICK, None, Button, None, 0)
                    IN  IF backend = MOCK THEN action
                        ELSE supabase_action_row(action)]
    /\ FAILSAFE = TRUE
    /\ resp = NoResp
    /\ tasks = [r \in Requests |-> NoTask]
    /\ running = None
    /\ device = << >>
    /\ users = << >>
    /\ routes = << >>

DeletionNext ==
    \/ \E r \in Requests, kind \in {"delete_session", "get_session"},
          id \in SessionIds : accept(r, kind, id)
    \/ \E r \in Requests : run_handler(r)
    \/ \E r \in Requests : handler_delete_first(r)
    \/ \E r \in Requests : handler_delete_second(r)
    \/ \E r \in Requests : handler_read(r)

\* concurrent requests that delete and get sessions
DeletionSpec == DeletionInit /\ [][DeletionNext]_vars

-----------------------------------------------------------------------------
(* The session lifecycle: claims *)

Terminal == {COMPLETED, SESSION_FAILED, CANCELLED}

\* the last request was op on a stored session
OnSession(op) == resp.op = op /\ ~IsNone(resp.before)

\* C6: pause_session is accepted exactly when the stored session is Running,
\* and then stores the session with status Paused; from Paused, Completed,
\* Failed and Cancelled it answers 400 and the stored session is unchanged.
C6_PauseOnlyFromRunning ==
    OnSession("pause_session") =>
        IF Get(resp.before).status = RUNNING
        THEN /\ resp.code = 200
             /\ sessions[resp.id] = [Get(resp.before) EXCEPT !.status = PAUSED]
        ELSE /\ resp.code = 400
             /\ sessions[resp.id] = Get(resp.before)

\* a pause of a session that has ended was refused
C6_Witness ==
    /\ OnSession("pause_session")
    /\ Get(resp.before).status = COMPLETED
    /\ resp.code = 400

\* C7: resume_session is accepted exactly when the stored session is Paused,
\* and then stores the session with status Running; from Running, Completed,
\* Failed and Cancelled it answers 400 and the stored session is unchanged.
C7_ResumeOnlyFromPaused ==
    OnSession("resume_session") =>
        IF Get(resp.before).status = PAUSED
        THEN /\ resp.code = 200
             /\ sessions[resp.id] = [Get(resp.before) EXCEPT !.status = RUNNING]
        ELSE /\ resp.code = 400
             /\ sessions[resp.id] = Get(resp.before)

\* a resume of a cancelled session was refused
C7_Witness ==
    /\ OnSession("resume_session")
    /\ Get(resp.before).status = CANCELLED
    /\ resp.code = 400

\* C8: Completed, Failed and Cancelled are terminal: a pause, resume or
\* cancel request on a session with one of these statuses leaves the stored
\* status as it was.
C8_TerminalStatusKept ==
    \A op \in {"pause_session", "resume_session", "cancel_session"} :
        (OnSession(op) /\ Get(resp.before).status \in Terminal) =>
            sessions[resp.id].status = Get(resp.before).status

\* C9: cancel_session on a Running or Paused session is accepted and stores
\* status Cancelled with an end time; id, owner, application name, task,
\* start time and step counter are as before.
C9_CancelStampsEnd ==
    (OnSession("cancel_session")
       /\ Get(resp.before).status \in {RUNNING, PAUSED}) =>
        LET old == Get(resp.before)
            new == sessions[resp.id]
        IN  /\ resp.code = 200
            /\ new.status = CANCELLED
            /\ ~IsNone(new.ended_at)
            /\ new.id = old.id
            /\ new.user_id = old.user_id
            /\ new.app_name = old.app_name
            /\ new.task_description = old.task_description
            /\ new.started_at = old.started_at
            /\ new.current_step = old.current_step

\* a paused session was cancelled
C9_Witness ==
    /\ OnSession("cancel_session")
    /\ Get(resp.before).status = PAUSED
    /\ sessions[resp.id].status = CANCELLED

\* C10: after a pause of a Running session directly followed by a resume,
\* the stored session is exactly the session before the pause: Running, and
\* every other field as it was.
C10_PauseResumeRoundTrip ==
    (resp.op = "resume_session" /\ resp.code = 200 /\ ~IsNone(resp.paused)) =>
        /\ Get(resp.paused).status = RUNNING
        /\ sessions[resp.id] = Get(resp.paused)

\* a session was paused and then resumed, at a later time than it started
C10_Witness ==
    /\ resp.op = "resume_session"
    /\ resp.code = 200
    /\ ~IsNone(resp.paused)
    /\ Get(resp.paused).started_at < now

\* C11: a session created through create_session is stored under its
\* identifier (get_session finds it right after the answer) with status
\* Running, current step 0 and no end time.
C11_CreatedRunning ==
    resp.op = "create_session" =>
        /\ resp.code = 200
        /\ ~IsNone(db_get_session(resp.id))
        /\ Get(db_get_session(resp.id)).id = resp.id
        /\ Get(db_get_session(resp.id)).status = RUNNING
        /\ Get(db_get_session(resp.id)).current_step = 0
        /\ IsNone(Get(db_get_session(resp.id)).ended_at)

\* a second session was created, later than the first, which was cancelled
C11_Witness ==
    /\ resp.op = "create_session"
    /\ resp.at > 0
    /\ \E other \in DOMAIN sessions \ {resp.id} :
          sessions[other].status = CANCELLED

\* C12: cancelling a session that is already Cancelled is answered 200, the
\* status stays Cancelled and the end time becomes the time of this request;
\* every other field is as before.
C12_RecancelRefreshesEnd ==
    (OnSession("cancel_session") /\ Get(resp.before).status = CANCELLED) =>
        /\ resp.code = 200
        /\ sessions[resp.id] =
              [Get(resp.before) EXCEPT !.ended_at = Some(resp.at)]

\* a cancelled session was cancelled again at a later time
C12_Witness ==
    /\ OnSession("cancel_session")
    /\ Get(resp.before).status = CANCELLED
    /\ Get(Get(resp.before).ended_at) < resp.at
    /\ sessions[resp.id].ended_at = Some(resp.at)

-----------------------------------------------------------------------------
(* The action lifecycle: claims *)

\* the last request was op on a stored action
OnAction(op) == resp.op = op /\ ~IsNone(resp.before)

Last(seq) == seq[Len(seq)]

\* C1: a confirm request for a stored action that is not Pending is answered
\* 400, calls the executor not at all, performs no primitive operation and
\* leaves the stored action as it was, whether confirmed is true or false.
C1_ConfirmNeedsPending ==
    (OnAction("confirm_action") /\ Get(resp.before).status # PENDING) =>
        /\ resp.code = 400
        /\ resp.calls = 0
        /\ resp.done = << >>
        /\ actions[resp.id] = Get(resp.before)

\* an action that failed was confirmed again, with confirmed = true
C1_Witness ==
    /\ OnAction("confirm_action")
    /\ Get(resp.before).status = FAILED
    /\ resp.confirmed
    /\ resp.code = 400

\* the status changes an action can go through
LegalChanges ==
    { << PENDING, SUCCESS >>, << PENDING, FAILED >>, << FAILED, PENDING >> }

\* C2: Success is absorbing: a confirm or retry request for a stored action
\* with status Success leaves its status Success and calls the executor not
\* at all. Every change of an action's status in a handler is
\* Pending->Success, Pending->Failed or Failed->Pending, the last only in a
\* retry request.
C2_SuccessAbsorbing ==
    /\ \A op \in {"confirm_action", "retry_action"} :
          (OnAction(op) /\ Get(resp.before).status = SUCCESS) =>
              /\ actions[resp.id].status = SUCCESS
              /\ resp.calls = 0
              /\ resp.done = << >>
    /\ \A i \in 1..(Len(resp.trace) - 1) :
          /\ << resp.trace[i], resp.trace[i + 1] >> \in LegalChanges
          /\ resp.trace[i] = FAILED => resp.op = "retry_action"
    /\ (OnAction("confirm_action") \/ OnAction("retry_action")) =>
          /\ resp.trace[1] = Get(resp.before).status
          /\ Last(resp.trace) = actions[resp.id].status

\* a retry was asked of an action that had succeeded
C2_Witness ==
    /\ OnAction("retry_action")
    /\ Get(resp.before).status = SUCCESS
    /\ actions[resp.id].status = SUCCESS

\* C3: a confirm request with confirmed = false for a Pending action stores
\* status Failed with an error message that contains "not confirmed" or
\* "rejected", calls the executor not at all, performs no primitive
\* operation, and the stored execution time is unset.
C3_RejectFailsUnexecuted ==
    (OnAction("confirm_action") /\ Get(resp.before).status = PENDING
       /\ ~resp.confirmed) =>
        LET new == actions[resp.id] IN
        /\ resp.code = 200
        /\ new.status = FAILED
        /\ ~IsNone(new.error_message)
        /\ \/ Contains(Get(new.error_message), << "not", "confirmed" >>)
           \/ Contains(Get(new.error_message), << "rejected" >>)
        /\ resp.calls = 0
        /\ resp.done = << >>
        /\ IsNone(new.execution_time)

\* a well-formed click was rejected by the caller
C3_Witness ==
    /\ OnAction("confirm_action")
    /\ Get(resp.before).status = PENDING
    /\ ~resp.confirmed
    /\ Get(resp.before).action_type = CLICK
    /\ actions[resp.id].status = FAILED

\* C4: a confirm request with confirmed = true for a Pending action calls the
\* executor exactly once and stores the status the executor produced, which
\* is Success or Failed: the stored action is not Pending afterwards.
C4_ConfirmAdoptsResult ==
    (OnAction("confirm_action") /\ Get(resp.before).status = PENDING
       /\ resp.confirmed) =>
        /\ resp.code = 200
        /\ resp.calls = 1
        /\ Last(resp.trace) \in {SUCCESS, FAILED}
        /\ actions[resp.id].status = Last(resp.trace)

\* a confirmed action was executed and is stored as Success
C4_Witness ==
    /\ OnAction("confirm_action")
    /\ Get(resp.before).status = PENDING
    /\ resp.confirmed
    /\ resp.calls = 1
    /\ resp.done # << >>
    /\ actions[resp.id].status = SUCCESS

\* C5: a retry request is accepted exactly when the stored action is Failed.
\* Otherwise it is answered 400, without a call of the executor and with the
\* stored action unchanged. When accepted, the status is reset to Pending,
\* the executor is called exactly once and its resulting status is stored; a
\* retry that succeeds leaves the stored action Success with no error
\* message.
C5_RetryOnlyFromFailed ==
    OnAction("retry_action") =>
        IF Get(resp.before).status # FAILED
        THEN /\ resp.code = 400
             /\ resp.calls = 0
             /\ resp.done = << >>
             /\ actions[resp.id] = Get(resp.before)
        ELSE /\ resp.code = 200
             /\ resp.calls = 1
             /\ Len(resp.trace) = 3
             /\ resp.trace[2] = PENDING
             /\ resp.trace[3] \in {SUCCESS, FAILED}
             /\ actions[resp.id].status = resp.trace[3]
             /\ actions[resp.id].status = SUCCESS =>
                   IsNone(actions[resp.id].error_message)
             /\ actions[resp.id].status = FAILED =>
                   ~IsNone(actions[resp.id].error_message)

\* a failed action was retried and succeeded
C5_Witness ==
    /\ OnAction("retry_action")
    /\ Get(resp.before).status = FAILED
    /\ ~IsNone(Get(resp.before).error_message)
    /\ actions[resp.id].status = SUCCESS
    /\ IsNone(actions[resp.id].error_message)

-----------------------------------------------------------------------------
(* The executor: claims *)

\* the last operation called execute; Call is what is recorded of the call
Called == ~IsNone(resp.exec)
Call == Get(resp.exec)

ClickKinds == {CLICK, DOUBLE_CLICK, RIGHT_CLICK}

\* the field an action lacks that its kind requires ("none": it lacks none)
missing_field(action) ==
    CASE action.action_type \in ClickKinds /\ ~has_coordinates(action)
            -> "coordinates"
      [] action.action_type = TYPE /\ (IsNone(action.text) \/ Get(action.text) = "")
            -> "text"
      [] action.action_type = SCROLL /\ lacks(action, "amount") -> "amount"
      [] action.action_type = WAIT /\ lacks(action, "duration") -> "duration"
      [] OTHER -> "none"

\* the action that was executed is of a kind of ActionType and has what its
\* kind requires
well_formed(action) ==
    action.action_type \in ActionType /\ missing_field(action) = "none"

\* no primitive operation of the call raised: none failed and the fail-safe
\* refused none
undisturbed(call) ==
    first_raising(dispatch(call.given).ops, 1, call.failsafe, call.env) = 0

\* the calls of pyautogui among the operations performed
physical(done) == SelectSeq(done, is_physical)

C14_FailuresCaptured ==
    (Called /\ (~undisturbed(Call) \/ Call.given.action_type \notin ActionType)) =>
        /\ IsNone(Call.propagated)
        /\ Call.returned.status = FAILED
        /\ ~IsNone(Call.returned.error_message)
        /\ resp.op \in {"confirm_action", "retry_action"} =>
              /\ resp.code = 200
              /\ ~IsNone(db_get_action(resp.id))
              /\ Get(db_get_action(resp.id)).status = FAILED
              /\ Get(db_get_action(resp.id)).error_message =
                    Call.returned.error_message

\* a confirmed type action clicked for the focus, then the write failed
C14_Witness ==
    /\ Called
    /\ resp.op = "confirm_action"
    /\ Call.env.fault = 3
    /\ Call.done = << Prim("click", << 100, 200 >>), Prim("pause", << 200 >>) >>
    /\ resp.code = 200
    /\ actions[resp.id].status = FAILED

\* C15: every call of execute sets the action's execution time to a whole
\* number of milliseconds that is not negative, on the success path and on
\* every failure path.
C15_ExecutionTimeNonNegative ==
    Called =>
        /\ ~IsNone(Call.returned.execution_time)
        /\ Get(Call.returned.execution_time) \in Nat

effect(action) ==
    IF action.action_type = TYPE
    THEN Prim("write", << Get(action.text) >>)
    ELSE Prim("scroll", << Get(action.target_element).amount >>)

\* C17: for a type or scroll action that has what it requires: with
\* coordinates, the calls of pyautogui are one click at the coordinates and
\* then the one write of the text (or scroll by the amount), and no write or
\* scroll, whole or begun, is ever performed before that click; without
\* coordinates, no click is performed and the write or scroll is the only
\* call (both when no primitive operation raises).
C17_FocusClickFirst ==
    (Called /\ Call.given.action_type \in {TYPE, SCROLL} /\ well_formed(Call.given)) =>
        LET click == Prim("click", xy(Call.given)) IN
        IF has_coordinates(Call.given)
        THEN /\ undisturbed(Call) =>
                   physical(Call.done) = << click, effect(Call.given) >>
             /\ Call.done # << >> => Call.done[1] = click
             /\ \A i \in 2..Len(Call.done) : Call.done[i].fn # "click"
        ELSE /\ undisturbed(Call) => Call.done = << effect(Call.given) >>
             /\ \A i \in 1..Len(Call.done) : Call.done[i].fn # "click"

\* a scroll action with coordinates clicked there, then scrolled
C17_Witness ==
    /\ Called
    /\ Call.given.action_type = SCROLL
    /\ has_coordinates(Call.given)
    /\ physical(Call.done) = << Prim("click", << 100, 200 >>), Prim("scroll", << 3 >>) >>
    /\ Call.returned.status = SUCCESS

\* what execute may not alter
frame(action) ==
    [id |-> action.id, session_id |-> action.session_id,
     step_number |-> action.step_number, action_type |-> action.action_type,
     target |-> action.target, text |-> action.text,
     target_element |-> action.target_element]

\* C18 as it is stated: execute returns a copy of its argument with only
\* status, execution time and (optionally) error message set; identity,
\* session reference, step number, kind, target, text and parameters are
\* not altered, and the object passed in is not modified.
C18_ReturnsCopy ==
    Called =>
        /\ frame(Call.returned) = frame(Call.given)
        /\ Call.argument = Call.given

\* C18: execute sets status, execution time and (on failure) the error
\* message on the very object it is passed and returns that object; it
\* alters nothing else of it: identity, session reference, step number,
\* kind, target, text and parameters stay as they were.
C18_UpdatesInPlace ==
    (Called /\ IsNone(Call.propagated)) =>
        /\ Call.argument = Call.returned
        /\ frame(Call.returned) = frame(Call.given)
        /\ Call.returned =
              [Call.given EXCEPT
                 !.status = Call.returned.status,
                 !.execution_time = Call.returned.execution_time,
                 !.error_message = Call.returned.error_message]
        /\ Call.returned.status = SUCCESS =>
              Call.returned.error_message = Call.given.error_message

\* a Pending action was executed: the object passed in is now Success
C18_Witness ==
    /\ Called
    /\ resp.op = "execute"
    /\ Call.given.status = PENDING
    /\ Call.argument.status = SUCCESS
    /\ Call.argument # Call.given

\* the pointer reached a corner while the call of pyautogui at position
\* env.corner was under way, with the fail-safe on
aborted_in_flight(call) ==
    /\ call.failsafe
    /\ call.env.corner \in 1..Len(dispatch(call.given).ops)
    /\ is_physical(dispatch(call.given).ops[call.env.corner])

\* nothing was begun after the operation the abort came in
nothing_further(call) ==
    \A i \in 1..Len(call.done) :
        /\ call.done[i] \in {dispatch(call.given).ops[i],
                              begun(dispatch(call.given).ops[i])}
        /\ i > call.env.corner => call.done[i].fn \in {"pause", "sleep"}

\* an executor constructed with default arguments has the fail-safe on
default_enabled == (resp.op = "__init__" /\ IsNone(resp.args)) => FAILSAFE

\* C19 as it is stated: the fail-safe is on for an executor constructed
\* with default arguments, and while it is on, an abort during a call of
\* pyautogui stops all further operations of the action and the action
\* ends Failed.
C19_AbortEndsFailed ==
    /\ default_enabled
    /\ (Called /\ aborted_in_flight(Call)) =>
          /\ nothing_further(Call)
          /\ Call.returned.status = FAILED

\* C19: the fail-safe is on for an executor constructed with default
\* arguments, and while it is on, an abort during a call of pyautogui stops
\* all further operations of the action; the action ends Failed when the
\* abort came during a write or when a call of pyautogui was still to be
\* made, and Success when it came during the last call, which was no write.
C19_AbortStopsFurther ==
    /\ default_enabled
    /\ (Called /\ aborted_in_flight(Call)) =>
          LET ops == dispatch(Call.given).ops
              k == Call.env.corner
          IN  /\ nothing_further(Call)
              /\ Call.returned.status =
                    IF \/ ops[k].fn = "write"
                       \/ \E i \in (k + 1)..Len(ops) : is_physical(ops[i])
                    THEN FAILED ELSE SUCCESS

\* the pointer reached a corner during the focusing click of a type action:
\* the text was never written and the action is Failed
C19_Witness ==
    /\ Called
    /\ Call.failsafe
    /\ Call.given.action_type = TYPE
    /\ Call.env.corner = 1
    /\ physical(Call.done) = << Prim("click", << 100, 200 >>) >>
    /\ Call.returned.status = FAILED

-----------------------------------------------------------------------------
(* The event loop: claims *)

\* the requests whose handler has begun and not returned
in_flight == {r \in Requests : tasks[r].pc \in {"get", "execute"}}

\* C20: at most one sequence of physical operations is in flight at any
\* time: at most one confirm or retry handler is between its start and its
\* return, and in the order in which the device performed them the
\* operations of one request's action are never separated by an operation
\* of another request's action.
C20_OneSequenceAtATime ==
    /\ Cardinality(in_flight) <= 1
    /\ \A i, j, k \in 1..Len(device) :
          (i < j /\ j < k /\ device[i].request = device[k].request) =>
              device[j].request = device[i].request

\* two requests were accepted before either handler ran, and each then
\* clicked and typed or scrolled: the device did the one sequence, then
\* the other
C20_Witness ==
    /\ \A r \in Requests : tasks[r].pc = "done" /\ tasks[r].code = 200
    /\ Len(device) = 4
    /\ device[1].request # device[3].request
    /\ device[1].op.fn = "click" /\ device[3].op.fn = "click"
    /\ {device[2].op.fn, device[4].op.fn} = {"write", "scroll"}

-----------------------------------------------------------------------------
(* The model client: payment check and analysis.                           *)

Asked == Get(resp.input)
Out == Get(resp.out)

\* C21: detect_payment_screen returns true whenever the model call or the
\* handling of its reply fails, whatever the failure; it returns false only
\* when the call succeeded and the returned text does not contain "true".
C21_PaymentFailsSafe ==
    resp.op = "detect_payment_screen" =>
        /\ Asked.kind # "text" => Out = TRUE
        /\ Out = FALSE =>
              /\ Asked.kind = "text"
              /\ ~Contains(Asked.text, << "t", "r", "u", "e" >>)

\* a payment check whose model call raised was answered
C21_Witness ==
    /\ resp.op = "detect_payment_screen"
    /\ Asked.kind = "raises"
    /\ Out = TRUE

\* C22: on the analysis path a failure of the model call is never swallowed:
\* analyze_screen gives no result and raises the failure to its caller, the
\* HTTP layer answering 500 with it, whereas a failure of the payment check
\* of the same request is swallowed and the analysis is answered.
C22_AnalysisFailurePropagates ==
    resp.op = "analyze_screen" =>
        /\ Asked[1].kind # "text" =>
              /\ resp.code = 500
              /\ IsNone(Out.result)
              /\ ~IsNone(Out.detail)
        /\ Asked[1].kind = "raises" => Out.detail = Some(<< "API", "Error" >>)
        /\ (Asked[2].kind # "text" /\ IsNone(vlm_analyze_screen(Asked[1]).error)) =>
              /\ resp.code = 200
              /\ ~IsNone(Out.result)

\* a request whose analysis call raised was answered
C22_Witness ==
    /\ resp.op = "analyze_screen"
    /\ Asked[1].kind = "raises"
    /\ resp.code = 500

\* the error _parse_response raises for what it cannot parse
MalformedResponse(e) ==
    /\ e.cls = "ValueError"
    /\ startswith(e.message, << "Failed", "to", "parse", "VLM", "response" >>)

\* the text left inside the code block, if any, is not a JSON document
not_json(response_text) ==
    LET inner == strip(unwrap(response_text)) IN
    ~(Len(inner) = 1 /\ inner[1] \in DOMAIN Documents)

\* C23: parsing text that is not valid JSON fails with the parse error of
\* _parse_response and no other kind of error, and atomically: no result,
\* partial or whole, is returned and nothing of the state is changed.
C23_MalformedFailsAtomically ==
    [][(resp'.op = "parse_response" /\ resp' # resp /\ not_json(Get(resp'.input))) =>
          /\ ~IsNone(Get(resp'.out).error)
          /\ MalformedResponse(Get(Get(resp'.out).error))
          /\ IsNone(Get(resp'.out).value)
          /\ UNCHANGED << backend, now, sessions, actions, FAILSAFE, loop, tables >>]_vars

\* text that is not JSON was parsed
C23_Witness ==
    /\ resp.op = "parse_response"
    /\ Asked = << "o", "k" >>
    /\ ~IsNone(Out.error)

\* the document is one the parser accepts
accepted(name) == IsNone(_parse_response(<< name >>).error)

\* parsing the text asked gave what parsing the bare document gives, for
\* every accepted document the text is a wrapping of, with these openings
transparent(openings) ==
    \A name \in DOMAIN Documents, opening \in openings, closing \in Closings :
        (Asked = Wrapped(opening, << name >>, closing) /\ accepted(name)) =>
            Out = _parse_response(<< name >>)

\* C24 as stated: for every JSON document the parser accepts, parsing the
\* document wrapped in a fenced code block, with an opening fence that is
\* bare or has a language tag and with a closing fence, yields the same
\* result as parsing the unwrapped document.
C24_AnyFenceTransparent ==
    resp.op = "parse_response" =>
        transparent(JsonOpenings \cup BareOpenings \cup OtherOpenings)

\* C24: the same, for an opening fence that is bare or is followed
\* directly by the tag json in lower case.
C24_JsonFenceTransparent ==
    resp.op = "parse_response" => transparent(JsonOpenings \cup BareOpenings)

\* an accepted document in a json code block was parsed
C24_Witness ==
    /\ resp.op = "parse_response"
    /\ Asked = Wrapped(JsonFence \o Newline, << "click" >>, Newline \o Fence \o Newline)
    /\ IsNone(Out.error)

\* the documents that recommend an action of a kind that is not known
UnknownKinds == {"drag", "upper", "untyped"}

\* C25: parsing a response whose recommended action_type is not one of the
\* six kinds fails with an error of a kind distinct from the one for text
\* that is not JSON, and returns no result; an action_type that is one of
\* the six kinds is mapped to that kind.
C25_UnknownKindDistinct ==
    resp.op = "parse_response" =>
        /\ \A name \in UnknownKinds :
              Asked = << name >> =>
                 /\ ~IsNone(Out.error)
                 /\ IsNone(Out.value)
                 /\ ~MalformedResponse(Get(Out.error))
        /\ \A kind \in ActionType :
              Asked = << kind >> =>
                 /\ IsNone(Out.error)
                 /\ Get(Get(Out.value).recommended_action).action_type = kind

\* C26: parsing a well-formed response in which recommended_action is absent
\* or is null succeeds, with the screen description and the candidates, no
\* recommended action and no reasoning.
C26_NoRecommendationParses ==
    (resp.op = "parse_response" /\ Asked \in {<< "absent" >>, << "null" >>}) =>
        /\ IsNone(Out.error)
        /\ Get(Out.value).current_screen = "Cart"
        /\ Len(Get(Out.value).available_actions) = 1
        /\ IsNone(Get(Out.value).recommended_action)
        /\ IsNone(Get(Out.value).reasoning)

-----------------------------------------------------------------------------
(* The store: claims *)

\* the stored actions of a session
actions_of(session_id) == {a \in DOMAIN actions : actions[a].session_id = session_id}

\* C27: after delete_session(s) succeeds the session s is absent and so is
\* every action whose session reference is s (list_actions(s) is empty and
\* get_action of each returns nothing), while the other sessions and the
\* actions of other sessions are left as they were; delete_session of an
\* identifier that is not stored reports not-found and changes nothing.
C27_DeleteCascades ==
    [][(resp'.op = "delete_session" /\ resp' # resp) =>
          /\ resp'.code = 200 =>
                /\ resp'.id \in DOMAIN sessions
                /\ DOMAIN sessions' = DOMAIN sessions \ {resp'.id}
                /\ \A x \in DOMAIN sessions' : sessions'[x] = sessions[x]
                /\ \A a \in DOMAIN actions' : actions'[a].session_id # resp'.id
                /\ \A a \in actions_of(resp'.id) : a \notin DOMAIN actions'
                /\ DOMAIN actions' = DOMAIN actions \ actions_of(resp'.id)
                /\ \A a \in DOMAIN actions' : actions'[a] = actions[a]
          /\ resp'.code = 404 =>
                /\ resp'.id \notin DOMAIN sessions
                /\ UNCHANGED << sessions, actions >>
          /\ resp'.code \in {200, 404}]_vars

\* the store a request saw holds the session
session_seen(store, session_id) == session_id \in DOMAIN store.sessions

\* the store a request saw holds an action of the session
actions_seen(store, session_id) ==
    \E a \in DOMAIN store.actions : store.actions[a].session_id = session_id

C29_MissingGetEmptyUpdateFails ==
    [][(IsNone(resp'.before) /\ resp' # resp) =>
          /\ resp'.op \in Gets =>
                /\ IsNone(Get(resp'.out).error)
                /\ Get(Get(resp'.out).value) = None
                /\ UNCHANGED << sessions, actions, users, routes >>
          /\ resp'.op \in {"update_session", "update_action", "update_route",
                           "update_user_consent"} =>
                /\ ~IsNone(Get(resp'.out).error)
                /\ Contains(Get(Get(resp'.out).error).message, << "not", "found" >>)
                /\ UNCHANGED << sessions, actions, users, routes >>]_vars

\* C30: storing an Action and reading it back through the store preserves
\* every field of it, its target with the coordinates, its text and its
\* parameters included, so that a stored well-formed click or type action
\* is well-formed when it is fetched for confirmation.
C30_ActionRoundTrip ==
    resp.op = "create_action" =>
        /\ db_get_action(resp.id) = resp.input
        /\ resp.input \in listed_actions(Get(resp.input).session_id)
        /\ well_formed(Get(resp.input)) => well_formed(Get(db_get_action(resp.id)))

\* the identifiers of a listing
ids_of(listing) == {listing[i].id : i \in 1..Len(listing)}

\* C31: list_actions(s) returns exactly the stored actions whose session
\* reference is s, up to the limit, ordered by step number ascending,
\* whatever the order in which they were created.
C31_ListedByStep ==
    resp.op = "list_actions" =>
        LET listing == Get(resp.out)
            limit == Get(resp.input).limit
            stored == actions_of(resp.id)
        IN  /\ Len(listing) = IF Cardinality(stored) < limit
                              THEN Cardinality(stored) ELSE limit
            /\ Cardinality(ids_of(listing)) = Len(listing)
            /\ ids_of(listing) \subseteq stored
            /\ \A i \in 1..Len(listing) :
                  Some(listing[i]) = db_get_action(listing[i].id)
            /\ \A i, j \in 1..Len(listing) :
                  i < j => listing[i].step_number <= listing[j].step_number
            /\ \A i \in 1..Len(listing), a \in stored \ ids_of(listing) :
                  listing[i].step_number <= actions[a].step_number

\* a session's actions were listed whose later creation has the lower step
C31_Witness ==
    /\ resp.op = "list_actions"
    /\ Len(Get(resp.out)) = 2
    /\ Get(resp.out)[1].step_number < Get(resp.out)[2].step_number
    /\ Get(resp.input).order[1] = Get(resp.out)[2].id

-----------------------------------------------------------------------------
(* Users: claims *)

\* C32: a User is created by the first consent call for its identifier and
\* afterwards changed only by consent updates: get_consent returns the
\* consent of the most recent save_consent, the first call answers
\* "created" and every later one "updated", and the user's identity and
\* creation time never change and the user is never removed.
C32_ConsentLifecycle ==
    [][/\ \A u \in DOMAIN users :
             /\ u \in DOMAIN users'
             /\ users'[u].id = users[u].id
             /\ users'[u].created_at = users[u].created_at
       /\ users' # users => resp'.op = "save_consent"
       /\ (resp'.op = "save_consent" /\ resp' # resp) =>
             /\ resp'.code = 200
             /\ Contains(Get(resp'.out).message,
                         IF resp'.id \in DOMAIN users
                         THEN << "updated" >> ELSE << "created" >>)
             /\ users'[resp'.id].id = resp'.id
             /\ users'[resp'.id].consent_given = Get(resp'.input)
             /\ \A u \in DOMAIN users' \ {resp'.id} :
                   u \in DOMAIN users /\ users'[u] = users[u]
       /\ (resp'.op = "get_consent" /\ resp' # resp) =>
             IF resp'.id \in DOMAIN users
             THEN /\ resp'.code = 200
                  /\ Get(resp'.out).consent_given = users[resp'.id].consent_given
             ELSE resp'.code = 404]_vars

\* consent was given at one time and withdrawn at a later one
C32_Witness ==
    /\ resp.op = "save_consent"
    /\ Contains(Get(resp.out).message, << "updated" >>)
    /\ ~Get(resp.out).consent_given
    /\ users[resp.id].created_at < now
    /\ users[resp.id].consent_timestamp = Some(now)

-----------------------------------------------------------------------------
(* The parser: coordinates *)

\* C33: when the parser builds a target from a candidate or from the
\* recommended action, coordinates are produced only if both x and y are in
\* the model output; if the coordinates object is there but lacks x or y,
\* the coordinates are left absent and parsing still succeeds.
C33_PartialCoordinatesAbsent ==
    resp.op = "parse_response" =>
        /\ Asked = << "click" >> =>
              /\ IsNone(Out.error)
              /\ Get(Out.value).available_actions[1].coordinates
                    = Some(Coordinates(100, 200))
              /\ Get(Get(Out.value).recommended_action).target[1].coordinates
                    = Some(Coordinates(100, 200))
        /\ Asked \in {<< "unplaced" >>, << "half_placed" >>} =>
              /\ IsNone(Out.error)
              /\ IsNone(Get(Out.value).available_actions[1].coordinates)
        /\ Asked = << "half_recommended" >> =>
              /\ IsNone(Out.error)
              /\ IsNone(Get(Get(Out.value).recommended_action).target[1].coordinates)

-----------------------------------------------------------------------------
(* The steps of a session *)

\* C34: in every reachable state of the store, no two actions of one session
\* have the same step number.
C34_StepsUnique ==
    \A a, b \in DOMAIN actions :
        (a # b /\ actions[a].session_id = actions[b].session_id)
            => actions[a].step_number # actions[b].step_number

-----------------------------------------------------------------------------
(* What is executed, and when *)

\* the executor was invoked by the request answered last
Executed ==
    /\ resp.op \in {"confirm_action", "retry_action"}
    /\ resp.calls = 1

\* C35: the executor is invoked for an action only after a confirm request
\* with confirmed=true was accepted for it: a confirm request invokes it
\* only when it says confirmed=true, and a retry request never invokes it
\* for an action that stands rejected by the caller (an action is rejected
\* while Pending and is Pending until its first confirm request is
\* accepted, so no confirm with confirmed=true was accepted for it).
C35_ExecutedOnlyIfConfirmed ==
    Executed =>
        /\ resp.op = "confirm_action" => resp.confirmed
        /\ resp.op = "retry_action" =>
              Get(resp.before).error_message # Some(NotConfirmed)

\* C36: the executor is invoked for an action only while the session of the
\* action exists and is Running.
C36_ExecutedOnlyWhileRunning ==
    Executed =>
        /\ Get(resp.before).session_id \in DOMAIN sessions
        /\ db_get_session(Get(resp.before).session_id)[1].status = RUNNING

\* C38: every stored action that was created Pending, with no error message
\* and no execution time, satisfies after any confirm and retry requests:
\* Success implies no error message and an execution time; Failed implies
\* an error message; Pending implies neither.
C38_StatusAndFields ==
    \A id \in DOMAIN actions :
        LET action == stored_action(id)[1] IN
        /\ action.status = SUCCESS =>
              /\ IsNone(action.error_message)
              /\ ~IsNone(action.execution_time)
        /\ action.status = FAILED => ~IsNone(action.error_message)
        /\ action.status = PENDING =>
              /\ IsNone(action.error_message)
              /\ IsNone(action.execution_time)

\* a retry succeeded for an action that had failed with an error message
C38_Witness ==
    /\ resp.op = "retry_action"
    /\ resp.trace = << FAILED, PENDING, SUCCESS >>
    /\ ~IsNone(Get(resp.before).error_message)
    /\ IsNone(stored_action(resp.id)[1].error_message)
    /\ ~IsNone(stored_action(resp.id)[1].execution_time)

-----------------------------------------------------------------------------
(* Concurrent requests for one action *)

\* the handler of the request called execute
invoked(r) == ~IsNone(tasks[r].executed)

\* the requests whose operations the device performed
performers == {device[i].request : i \in 1..Len(device)}

\* C37: under concurrent requests for one action, a request is accepted
\* exactly when its handler invoked the executor, once; of two confirm
\* requests for the same action only one is accepted; between a handler's
\* read of the action and its write of the result no other request for the
\* same action has read it; and the device performs the operations of at
\* most one confirm request for an action.
C37_OneExecutionPerAcceptance ==
    /\ \A r \in Requests :
          tasks[r].pc = "done" =>
              /\ tasks[r].code = 200 <=> invoked(r)
              /\ invoked(r) => tasks[r].next = Len(Get(tasks[r].executed).done)
    /\ \A r, q \in Requests :
          (r # q /\ tasks[r].id = tasks[q].id) =>
              /\ ~(tasks[r].pc = "execute" /\ tasks[q].pc \in {"get", "execute"})
              /\ (tasks[r].kind = "confirm_action"
                    /\ tasks[q].kind = "confirm_action")
                    => /\ ~(invoked(r) /\ invoked(q))
                       /\ ~({r, q} \subseteq performers)

\* two confirm requests for the Pending action were accepted by the server:
\* one handler executed it, the other answered 400
C37_Witness ==
    /\ \A r \in Requests :
          /\ tasks[r].kind = "confirm_action"
          /\ tasks[r].id = "a1"
          /\ tasks[r].pc = "done"
    /\ {tasks[r].code : r \in Requests} = {200, 400}
    /\ Cardinality(performers) = 1
    /\ Len(device) = 2

-----------------------------------------------------------------------------
(* The fields of a session *)

\* C39: for every session created through create_session, after any pause,
\* resume and cancel requests the end time is null exactly while the status
\* is Running or Paused and non-null once it is Cancelled, and no request
\* changes the current step, the start time, the owner, the application
\* name or the task description.
C39_SessionFields ==
    [][\A id \in DOMAIN sessions' :
          /\ sessions'[id].status \in {RUNNING, PAUSED}
                <=> IsNone(sessions'[id].ended_at)
          /\ sessions'[id].status = CANCELLED
                => ~IsNone(sessions'[id].ended_at)
          /\ id \in DOMAIN sessions =>
                /\ sessions'[id].current_step = sessions[id].current_step
                /\ sessions'[id].started_at = sessions[id].started_at
                /\ sessions'[id].user_id = sessions[id].user_id
                /\ sessions'[id].app_name = sessions[id].app_name
                /\ sessions'[id].task_description
                      = sessions[id].task_description]_vars

\* a session that was paused some time after it started is cancelled later
\* still
C39_Witness ==
    /\ resp.op = "cancel_session"
    /\ resp.code = 200
    /\ Get(resp.before).status = PAUSED
    /\ IsNone(Get(resp.before).ended_at)
    /\ sessions[resp.id].status = CANCELLED
    /\ sessions[resp.id].ended_at = Some(now)
    /\ sessions[resp.id].started_at < now

-----------------------------------------------------------------------------
(* Two executors *)

\* C40: an executor constructed with the abort switch enabled keeps it
\* enabled: when an executor has been constructed and the switch is
\* enabled, constructing another executor, with any arguments, leaves the
\* switch enabled for the executions that follow.
C40_SwitchKeptEnabled ==
    [][(resp.op = "__init__" /\ FAILSAFE /\ resp'.op = "__init__")
          => FAILSAFE']_vars

====
